---- MODULE Spec2Model ----
(***************************************************************************)
(* Model of the event-driven synchronization core of the messaging client: *)
(* the EventBus and StateManager (messaging_app/services/core.py), the     *)
(* ThreadManager (services/thread_manager.py), the MessageService          *)
(* (services/message_service.py) and the ChatController polling loop and   *)
(* send path (controllers/chat_controller.py).                             *)
(*                                                                         *)
(* The services construct Message with a guid keyword and publish          *)
(* EventType.THREAD_INITIALIZED; the model takes the domain types to carry *)
(* the members the services use (a guid that defaults to empty).           *)
(***************************************************************************)
EXTENDS Integers, Sequences, FiniteSets, TLC

(***************************************************************************)
(* Bounds of the model                                                     *)
(***************************************************************************)
MaxRecords == 2     \* raw records per thread in one fetched snapshot
MaxTs == 2          \* timestamps range over 1..MaxTs
MaxMsgs == 3        \* cap on the length of one thread's message list
MaxInits == 2       \* calls of ChatController.initialize
MaxSends == 1       \* SEND_MESSAGE_REQUESTED events handled
MaxFails == 2       \* consecutive failed cycles that are counted
MaxSubs == 3        \* registrations per event type on the bus
MaxRegs == 2        \* registrations on the bus while handlers re-enter it
MaxDepth == 2       \* publish calls nested inside handlers
MaxUpdates == 3     \* update_state calls made by the concurrent threads
MaxObservers == 2   \* observers registered with the state store
MaxExecs == 6       \* executions handed to the executor of the bus
MaxStops == 2       \* calls of ChatController.shutdown made by the threads
MaxHandlers == 3    \* handler calls nested inside one update_state of shutdown
MaxChain == 6       \* subscriber calls that one top-level publish or update_state sets off

(***************************************************************************)
(* Program constants                                                       *)
(***************************************************************************)
poll_interval == 2          \* NetworkConfig.poll_interval
max_workers == 5            \* ThreadPoolExecutor(max_workers=5) of the bus
TicksPerMs == 2             \* timestamps are counted in half milliseconds

None == "None"
Guids == {"T1"}
GuidOrder == <<"T1">>
Timestamps == 1..MaxTs
SendTexts == {"reply"}

ConnectionStates == {"disconnected", "connecting", "connected", "error"}

(***************************************************************************)
(* Raw records of the remote message source and the Message dataclass      *)
(***************************************************************************)
Raw(guid, text, ts) ==
    [guid |-> guid, text |-> text, sender_name |-> "Bob", timestamp |-> ts,
     dict |-> TRUE]

\* a list element that is not a JSON object (a null, a string): every
\* msg.get(...) on it raises
Malformed ==
    [guid |-> "", text |-> "", sender_name |-> "", timestamp |-> 1,
     dict |-> FALSE]

\* what the remote source holds: m1, an older m2, a legacy record without an
\* id, and a malformed element
RawRecords == {Raw("m1", "hi", 2), Raw("m2", "hi", 1), Raw("", "yo", 1), Malformed}

RECURSIVE SeqsUpTo(_, _)
SeqsUpTo(S, n) ==
    IF n = 0 THEN {<<>>}
    ELSE LET shorter == SeqsUpTo(S, n - 1)
         IN  shorter \cup {Append(s, x) : s \in {t \in shorter : Len(t) = n - 1}, x \in S}

RecordSeqs == SeqsUpTo(RawRecords, MaxRecords)

NoRepeat(seq) == \A i \in 1..Len(seq) : \A j \in 1..Len(seq) : i # j => seq[i] # seq[j]

\* the snapshots a fetch can return: every thread lists up to MaxRecords
\* records, none of them twice
Snapshots == [Guids -> {seq \in RecordSeqs : NoRepeat(seq)}]

Message(text, sender, ts, direction, guid) ==
    [text |-> text, sender_name |-> sender, timestamp |-> ts,
     direction |-> direction, guid |-> guid]

Thread(name, msgs) == [name |-> name, messages |-> msgs]

EmptyDict == [g \in {} |-> Thread("", <<>>)]

DictPut(d, g, v) == [x \in (DOMAIN d) \cup {g} |-> IF x = g THEN v ELSE d[x]]

AppState(conn, cur, polling, err, thr) ==
    [connection_state |-> conn, current_thread_guid |-> cur,
     is_polling |-> polling, error_message |-> err, threads |-> thr]

Event(type, context) == [type |-> type, context |-> context]

VARIABLES
    dicts,            \* heap of thread dictionaries: reference -> (guid -> Thread)
    tmRef,            \* ThreadManager._threads (a reference into dicts)
    message_cache,    \* MessageService._message_cache
    state,            \* StateManager._state
    polling_active,   \* ChatController._polling_active
    current_thread,   \* ChatController._current_thread (guid of it, or None)
    loops,            \* the _polling_loop tasks created so far
    initPc,           \* position of ChatController.initialize
    inits,            \* number of initialize calls so far
    sendPc,           \* position of _handle_send_message on its pool thread
    sendReq,          \* the send in progress: thread at the request, text
    sends,            \* number of send requests handled so far
    events,           \* events published by the last operation, in order
    received,         \* MESSAGE_RECEIVED publishes of the last poll cycle
    pollPre,          \* registry content at the start of the last poll cycle
    pollSnap,         \* snapshot fetched by the last poll cycle
    subscribers,      \* EventBus._subscribers: event type -> list of callbacks
    published,        \* type of the event of the last publish call
    invoked,          \* callbacks called inline by the last publish, in order
    submitted,        \* callbacks the last publish handed to the pool, in order
    escaped           \* an exception left the last publish call

syncVars == <<dicts, tmRef, message_cache, state, polling_active,
              current_thread, loops, initPc, inits, sendPc, sendReq, sends,
              events, received, pollPre, pollSnap>>

busVars == <<subscribers, published, invoked, submitted, escaped>>

VARIABLES
    busLock,          \* EventBus._lock: "free" or "held"
    frames,           \* publish calls in progress on the calling thread, outermost first
    ledger,           \* per type and callback: registrations added minus removed
    blocked,          \* the calling thread waits for a lock that it holds itself
    storeLock,        \* StateManager._lock: None or the thread that holds it
    callers,          \* per thread: position in get_state / update_state, locals
    commits,          \* assignments to StateManager._state so far, in order
    observers,        \* StateManager._observers
    trace,            \* observer calls and publishes of the last update_state, in order
    poolQueued,       \* executions waiting in the queue of EventBus._executor
    poolRunning,      \* executions on a worker thread that will return
    poolHung,         \* executions on a worker thread that never return
    execs,            \* executions submitted to the executor so far
    stoppers,         \* per thread: position in ChatController.shutdown, locals
    stopCalls,        \* the threads that have called shutdown so far, in order
    stopState,        \* AppState when a shutdown call first returned with no other in progress
    removal,          \* if the last bus call was an unsubscribe: the registrations its callback had
    notifier,         \* the update_state call whose observer loop is in progress, or the last one
    chain             \* events of the top-level call in progress that wait for their subscriber, and the handler runs so far

lockVars == <<busLock, frames, ledger, blocked>>

threadVars == <<storeLock, callers, commits>>

obsVars == <<observers, trace>>

poolVars == <<poolQueued, poolRunning, poolHung, execs>>

stopVars == <<stoppers, stopCalls, stopState>>

callVars == <<removal>>

notifyVars == <<notifier>>

chainVars == <<chain>>

extVars == <<lockVars, threadVars, obsVars, poolVars, stopVars, callVars, notifyVars, chainVars>>

\* what the actions of the bus lock, and of the store threads, leave alone
lockRest == <<syncVars, threadVars, obsVars, poolVars, stopVars, callVars, notifyVars,
               chainVars>>

threadRest == <<busVars, lockVars, obsVars, poolVars, stopVars, callVars, notifyVars,
                 chainVars>>

obsRest == <<busVars, lockVars, threadVars, poolVars, stopVars, callVars, notifyVars,
              chainVars>>

poolRest == <<syncVars, lockVars, threadVars, obsVars, stopVars, callVars, notifyVars,
               chainVars>>

stopRest == <<busVars, lockVars, threadVars, obsVars, poolVars, callVars, notifyVars,
               chainVars>>

callRest == <<syncVars, lockVars, threadVars, obsVars, poolVars, stopVars, notifyVars,
               chainVars>>

notifyRest == <<busVars, lockVars, threadVars, poolVars, stopVars, callVars,
               chainVars>>

chainRest == <<busVars, lockVars, threadVars, obsVars, poolVars, stopVars,
              callVars, notifyVars>>

(***************************************************************************)
(* StateManager.update_state with the application's subscribers            *)
(***************************************************************************)
\* the thread test written with truth values: None counts as no change
ChangesUnlessNone(old, new, hp) ==
    [connection_changed |-> old.connection_state # new.connection_state,
     thread_changed |-> /\ old.current_thread_guid # None
                        /\ new.current_thread_guid # None
                        /\ old.current_thread_guid # new.current_thread_guid,
     polling_changed |-> old.is_polling # new.is_polling,
     threads_changed |-> hp[old.threads] # hp[new.threads]]

\* the changes dict built from self._state after the assignment
ChangesAfterSwap(old, new, hp) ==
    [connection_changed |-> new.connection_state # new.connection_state,
     thread_changed |-> new.current_thread_guid # new.current_thread_guid,
     polling_changed |-> new.is_polling # new.is_polling,
     threads_changed |-> hp[new.threads] # hp[new.threads]]

Changes(old, new, hp) ==
    [connection_changed |-> old.connection_state # new.connection_state,
     thread_changed |-> old.current_thread_guid # new.current_thread_guid,
     polling_changed |-> old.is_polling # new.is_polling,
     threads_changed |-> hp[old.threads] # hp[new.threads]]

\* ChatController._update_state builds the new state from get_state()
controller_new_state(cur, conn) ==
    AppState(conn, cur.current_thread_guid, cur.is_polling, None, cur.threads)

RECURSIVE update_state(_, _, _)
\* ChatController._handle_connection_change, the synchronous subscriber of
\* CONNECTION_CHANGED: cur is what get_state() returns while it runs
handle_connection_change(cur, newConn, hp) ==
    update_state(cur, controller_new_state(cur, newConn), hp)

\* one entry of the trace of an update_state call: an observer call or a
\* publish, made by the call itself (depth 0) or by an update_state that a
\* subscriber made meanwhile (depth 1 and more)
Step(kind, depth) == [kind |-> kind, depth |-> depth]

Deeper(tr) == [k \in 1..Len(tr) |-> Step(tr[k].kind, tr[k].depth + 1)]

\* the publish calls placed before the observer loop
notify_after_publish(observed, publishes) == publishes \o observed

\* the observer loop of update_state comes before its publish calls
notify_then_publish(observed, publishes) == observed \o publishes

\* the payload built from self._state at the time of the publish
state_changed_payload_current(old, updated, changes) ==
    [old_state |-> updated, new_state |-> updated, changes |-> changes]

\* the data of the STATE_CHANGED event of an update_state call
state_changed_payload(old, updated, changes) ==
    [old_state |-> old, new_state |-> updated, changes |-> changes]

\* result: the state held by the store when the call returns, the events
\* published on the bus until then, in order, the trace of the call and the
\* data of its own STATE_CHANGED event
update_state(old, updated, hp) ==
    LET changes == Changes(old, updated, hp)
        observed == [k \in 1..Len(observers) |-> Step("observer", 0)]
        conn == IF changes.connection_changed
                THEN LET inner == handle_connection_change(updated, updated.connection_state, hp)
                     IN  [state |-> inner.state,
                          events |-> <<Event("CONNECTION_CHANGED", "")>> \o inner.events,
                          trace |-> <<Step("CONNECTION_CHANGED", 0)>> \o Deeper(inner.trace)]
                ELSE [state |-> updated, events |-> <<>>, trace |-> <<>>]
        sel == IF changes.thread_changed
               THEN <<Event("THREAD_SELECTED", "")>> ELSE <<>>
        seltrace == IF changes.thread_changed
                    THEN <<Step("THREAD_SELECTED", 0)>> ELSE <<>>
    IN  [state |-> conn.state,
         events |-> conn.events \o sel \o <<Event("STATE_CHANGED", "")>>,
         trace |-> notify_then_publish(observed,
                       conn.trace \o seltrace \o <<Step("STATE_CHANGED", 0)>>),
         payload |-> state_changed_payload(old, updated, changes)]

\* ChatController._handle_error, the synchronous subscriber of ERROR_OCCURRED
handle_error_event(st, context, hp) ==
    IF context \in {"connection", "initialization"}
    THEN update_state(st, controller_new_state(st, "error"), hp)
    ELSE [state |-> st, events |-> <<>>]

\* publish of ERROR_OCCURRED{context} and what its subscriber does
publish_error(st, context, hp) ==
    LET h == handle_error_event(st, context, hp)
    IN  [state |-> h.state,
         events |-> <<Event("ERROR_OCCURRED", context)>> \o h.events]

controller_update_state(st, conn, hp) ==
    update_state(st, controller_new_state(st, conn), hp)

update_state_polling(st, polling, hp) ==
    update_state(st, AppState(st.connection_state, st.current_thread_guid,
                              polling, None, st.threads), hp)

update_current_thread(st, guid, hp) ==
    update_state(st, AppState(st.connection_state, guid, st.is_polling,
                              None, st.threads), hp)

\* the update_state call ThreadManager makes after a registry mutation
mirror_threads(st, ref, hp) ==
    update_state(st, AppState(st.connection_state, st.current_thread_guid,
                              st.is_polling, None, ref), hp)

(***************************************************************************)
(* Message identity rule used by the claims: ids when both messages have   *)
(* one, else (sender, text, timestamp in whole milliseconds)               *)
(***************************************************************************)
TimestampMs(ts) == ts \div TicksPerMs

CompositeKey(m) == <<m.sender_name, m.text, TimestampMs(m.timestamp)>>

SameIdentity(a, b) ==
    IF a.guid # "" /\ b.guid # ""
    THEN a.guid = b.guid
    ELSE CompositeKey(a) = CompositeKey(b)

Contains(msgs, m) == \E i \in 1..Len(msgs) : SameIdentity(msgs[i], m)

MessagesOf(d, g) == IF g \in DOMAIN d THEN d[g].messages ELSE <<>>

(***************************************************************************)
(* MessageService: record processing, seed fetch and poll                  *)
(***************************************************************************)
\* MessageService._process_message: the Message, or None (here the empty
\* sequence) when building it raised
process_message(raw) ==
    IF raw.dict
    THEN <<Message(raw.text, raw.sender_name, raw.timestamp, "incoming", raw.guid)>>
    ELSE <<>>

\* the messages that _process_message returns for the records of one thread
RECURSIVE process_all(_)
process_all(raws) ==
    IF raws = <<>> THEN <<>>
    ELSE process_message(Head(raws)) \o process_all(Tail(raws))

\* the loops of MessageService.initialize_threads have no try of their own:
\* they get through only if no record raises
Parseable(snap) == \A g \in Guids : \A k \in 1..Len(snap[g]) : snap[g][k].dict

\* the Message built by MessageService.initialize_threads: no guid is passed
seed_message(raw) ==
    Message(raw.text, raw.sender_name, raw.timestamp, "incoming", "")

\* MessageService.initialize_threads, the result dictionary
seed_threads(snap) ==
    [g \in {x \in Guids : snap[x] # <<>>} |->
        Thread("Unknown", [k \in 1..Len(snap[g]) |-> seed_message(snap[g][k])])]

\* the inner loop of MessageService.poll_messages for one thread: the
\* messages whose guid is not among the guids cached before this thread's
\* records are processed
thread_updates(cached, raws) ==
    LET existing_guids == {cached[i].guid : i \in 1..Len(cached)}
        keep(m) == m.guid # "" /\ m.guid \notin existing_guids
    IN  SelectSeq(process_all(raws), keep)

\* MessageService.poll_messages, the updates dictionary (threads without
\* new messages are left out of it)
poll_updates(cache, snap) ==
    [g \in {x \in Guids : thread_updates(cache[x], snap[x]) # <<>>} |->
        thread_updates(cache[g], snap[g])]

poll_cache(cache, snap) ==
    [g \in Guids |-> cache[g] \o thread_updates(cache[g], snap[g])]

\* the MESSAGE_RECEIVED events of one poll_messages call, in publish order,
\* each with what a subscriber reading the registry d finds at that moment
RECURSIVE poll_received(_, _, _)
poll_received(updates, d, k) ==
    IF k > Len(GuidOrder) THEN <<>>
    ELSE LET g == GuidOrder[k]
             ev(m) == [thread_guid |-> g, message |-> m,
                       present |-> Contains(MessagesOf(d, g), m)]
         IN  (IF g \in DOMAIN updates THEN [j \in 1..Len(updates[g]) |-> ev(updates[g][j])] ELSE <<>>)
             \o poll_received(updates, d, k + 1)

(***************************************************************************)
(* ThreadManager.update_thread                                             *)
(***************************************************************************)
\* Thread.add_message for each incoming message
add_messages(msgs, incoming) == msgs \o incoming

\* update_thread that returns at once when the guid is not in the registry
update_thread_known(d, guid, messages) ==
    IF guid \in DOMAIN d
    THEN DictPut(d, guid, Thread(d[guid].name, add_messages(d[guid].messages, messages)))
    ELSE d

\* the registry after update_thread(guid, messages)
update_thread(d, guid, messages) ==
    LET thread == IF guid \in DOMAIN d THEN d[guid] ELSE Thread("Unknown", <<>>)
    IN  DictPut(d, guid, Thread(thread.name, add_messages(thread.messages, messages)))

\* the update_thread calls of one cycle of _polling_loop, for updates.items()
RECURSIVE apply_updates(_, _, _)
apply_updates(d, updates, k) ==
    IF k > Len(GuidOrder) THEN d
    ELSE LET g == GuidOrder[k]
         IN  apply_updates(IF g \in DOMAIN updates
                           THEN update_thread(d, g, updates[g]) ELSE d,
                           updates, k + 1)

\* state and events of the update_state and THREAD_UPDATED publish that each
\* update_thread call of the cycle makes; hp is the heap after the merges
RECURSIVE mirror_updates(_, _, _, _, _)
mirror_updates(st, updates, ref, hp, k) ==
    IF k > Len(GuidOrder) THEN [state |-> st, events |-> <<>>]
    ELSE LET g == GuidOrder[k]
         IN  IF g \in DOMAIN updates
             THEN LET r == mirror_threads(st, ref, hp)
                      rest == mirror_updates(r.state, updates, ref, hp, k + 1)
                  IN  [state |-> rest.state,
                       events |-> r.events \o <<Event("THREAD_UPDATED", "updated")>>
                                  \o rest.events]
             ELSE mirror_updates(st, updates, ref, hp, k + 1)

(***************************************************************************)
(* ChatController._polling_loop: sleep lengths                             *)
(***************************************************************************)
\* the sleep at the end of a cycle that raised
error_sleep(interval) == interval * 2

\* the sleep at the end of a cycle that did not raise
success_sleep(interval) == interval

Task(pc, sleep, failed, fails) ==
    [pc |-> pc, sleep |-> sleep, failed |-> failed, fails |-> fails]

Min(a, b) == IF a < b THEN a ELSE b

(***************************************************************************)
(* State after construction                                                *)
(***************************************************************************)
SyncInit ==
    /\ dicts = <<EmptyDict, EmptyDict>>
    /\ tmRef = 2
    /\ message_cache = [g \in Guids |-> <<>>]
    /\ state = AppState("disconnected", None, FALSE, None, 1)
    /\ polling_active = FALSE
    /\ current_thread = None
    /\ loops = <<>>
    /\ initPc = "idle"
    /\ inits = 0
    /\ sendPc = "idle"
    /\ sendReq = [thread |-> None, text |-> ""]
    /\ sends = 0
    /\ events = <<>>
    /\ received = <<>>
    /\ pollPre = EmptyDict
    /\ pollSnap = [g \in Guids |-> <<>>]

WithinCap(d) == \A g \in DOMAIN d : Len(d[g].messages) <= MaxMsgs

(***************************************************************************)
(* ChatController.initialize                                               *)
(***************************************************************************)
\* initialize up to the await of thread_manager.initialize_threads; limit
\* bounds the number of calls
Initialize(limit) ==
    /\ initPc = "idle"
    /\ inits < limit
    /\ LET r == controller_update_state(state, "connecting", dicts)
       IN  /\ state' = r.state
           /\ events' = r.events
    /\ initPc' = "seeding"
    /\ inits' = inits + 1
    /\ UNCHANGED <<dicts, tmRef, message_cache, polling_active, current_thread,
                   loops, sendPc, sendReq, sends, received, pollPre, pollSnap>>
    /\ UNCHANGED <<busVars, extVars>>

\* the seed fetch returned snap: MessageService.initialize_threads,
\* ThreadManager.initialize_threads, then the rest of initialize with
\* _start_polling
InitializeSeeded(snap) ==
    /\ initPc = "seeding"
    /\ Parseable(snap)
    /\ LET result == seed_threads(snap)
           hp == Append(dicts, result)
           ref == Len(dicts) + 1
           r1 == mirror_threads(state, ref, hp)
           r2 == controller_update_state(r1.state, "connected", hp)
           r3 == IF polling_active
                 THEN [state |-> r2.state, events |-> <<>>]
                 ELSE update_state_polling(r2.state, TRUE, hp)
       IN  /\ dicts' = hp
           /\ tmRef' = ref
           /\ message_cache' = [g \in Guids |-> <<>>]
           /\ state' = r3.state
           /\ events' = <<Event("THREAD_INITIALIZED", "")>> \o r1.events
                        \o <<Event("INITIALIZATION_COMPLETE", "")>>
                        \o r2.events \o r3.events
           /\ loops' = IF polling_active THEN loops
                       ELSE Append(loops, Task("new", 0, FALSE, 0))
    /\ polling_active' = TRUE
    /\ initPc' = "idle"
    /\ UNCHANGED <<current_thread, inits, sendPc, sendReq, sends, received,
                   pollPre, pollSnap>>
    /\ UNCHANGED <<busVars, extVars>>

\* the seed fetch raised: the except clauses of the service, the thread
\* manager and initialize
InitializeFailed ==
    /\ initPc = "seeding"
    /\ LET r1 == publish_error(state, "initialize_threads", dicts)
           r2 == publish_error(r1.state, "thread_initialization", dicts)
           r3 == publish_error(r2.state, "controller_initialization", dicts)
           r4 == controller_update_state(r3.state, "error", dicts)
       IN  /\ state' = r4.state
           /\ events' = r1.events \o r2.events \o r3.events \o r4.events
    /\ initPc' = "idle"
    /\ UNCHANGED <<dicts, tmRef, message_cache, polling_active, current_thread,
                   loops, inits, sendPc, sendReq, sends, received, pollPre,
                   pollSnap>>
    /\ UNCHANGED <<busVars, extVars>>

\* the seed fetch returned snap, and a record of it raised inside the loops
\* of MessageService.initialize_threads after the caches were cleared: the
\* same except clauses as for a failed fetch
InitializeSeedAborted(snap) ==
    /\ initPc = "seeding"
    /\ ~Parseable(snap)
    /\ LET r1 == publish_error(state, "initialize_threads", dicts)
           r2 == publish_error(r1.state, "thread_initialization", dicts)
           r3 == publish_error(r2.state, "controller_initialization", dicts)
           r4 == controller_update_state(r3.state, "error", dicts)
       IN  /\ state' = r4.state
           /\ events' = r1.events \o r2.events \o r3.events \o r4.events
    /\ message_cache' = [g \in Guids |-> <<>>]
    /\ initPc' = "idle"
    /\ UNCHANGED <<dicts, tmRef, polling_active, current_thread, loops, inits,
                   sendPc, sendReq, sends, received, pollPre, pollSnap>>
    /\ UNCHANGED <<busVars, extVars>>

(***************************************************************************)
(* ChatController._polling_loop, one task i                                *)
(***************************************************************************)
\* LoopResume of a loop whose while test is always true
LoopResumeAlways(i) ==
    /\ loops[i].pc \in {"new", "sleep"}
    /\ loops' = [loops EXCEPT ![i].pc = "fetch"]
    /\ UNCHANGED <<dicts, tmRef, message_cache, state, polling_active,
                   current_thread, initPc, inits, sendPc, sendReq, sends,
                   events, received, pollPre, pollSnap>>
    /\ UNCHANGED <<busVars, extVars>>

\* LoopResume of a loop that gives up after a failed cycle
LoopResumeUnlessFailed(i) ==
    /\ loops[i].pc \in {"new", "sleep"}
    /\ loops' = [loops EXCEPT ![i].pc = IF polling_active /\ ~loops[i].failed
                                        THEN "fetch" ELSE "done"]
    /\ UNCHANGED <<dicts, tmRef, message_cache, state, polling_active,
                   current_thread, initPc, inits, sendPc, sendReq, sends,
                   events, received, pollPre, pollSnap>>
    /\ UNCHANGED <<busVars, extVars>>

\* the while test, at task start and after each sleep; a true test issues
\* the fetch of message_service.poll_messages
LoopResume(i) ==
    /\ loops[i].pc \in {"new", "sleep"}
    /\ loops' = [loops EXCEPT ![i].pc = IF polling_active THEN "fetch" ELSE "done"]
    /\ UNCHANGED <<dicts, tmRef, message_cache, state, polling_active,
                   current_thread, initPc, inits, sendPc, sendReq, sends,
                   events, received, pollPre, pollSnap>>
    /\ UNCHANGED <<busVars, extVars>>

\* the fetch returned snap: the rest of poll_messages, the update_thread
\* calls of the cycle, and the sleep that ends the cycle
LoopFetchOk(i, snap) ==
    /\ loops[i].pc = "fetch"
    /\ LET updates == poll_updates(message_cache, snap)
           d == dicts[tmRef]
           merged == apply_updates(d, updates, 1)
           hp == [dicts EXCEPT ![tmRef] = merged]
           recv == poll_received(updates, d, 1)
           ev(e) == Event("MESSAGE_RECEIVED", e.thread_guid)
           r == mirror_updates(state, updates, tmRef, hp, 1)
       IN  /\ WithinCap(merged)
           /\ message_cache' = poll_cache(message_cache, snap)
           /\ dicts' = hp
           /\ received' = recv
           /\ state' = r.state
           /\ events' = [k \in 1..Len(recv) |-> ev(recv[k])] \o r.events
           /\ pollPre' = d
    /\ pollSnap' = snap
    /\ loops' = [loops EXCEPT ![i] = Task("sleep", success_sleep(poll_interval), FALSE, 0)]
    /\ UNCHANGED <<tmRef, polling_active, current_thread, initPc, inits,
                   sendPc, sendReq, sends>>
    /\ UNCHANGED <<busVars, extVars>>

\* LoopFetchFail with a backoff that doubles again on every further
\* consecutive failure
LoopFetchFailCompounding(i) ==
    /\ loops[i].pc = "fetch"
    /\ LET r1 == publish_error(state, "poll_messages", dicts)
           r2 == publish_error(r1.state, "message_polling", dicts)
       IN  /\ state' = r2.state
           /\ events' = r1.events \o r2.events
    /\ loops' = [loops EXCEPT ![i] =
                    Task("sleep",
                         IF loops[i].failed THEN loops[i].sleep * 2
                         ELSE error_sleep(poll_interval),
                         TRUE, Min(loops[i].fails + 1, MaxFails))]
    /\ UNCHANGED <<dicts, tmRef, message_cache, polling_active, current_thread,
                   initPc, inits, sendPc, sendReq, sends, received, pollPre,
                   pollSnap>>
    /\ UNCHANGED <<busVars, extVars>>

\* the fetch raised: the except clause of poll_messages, then the except
\* clause of the loop with the doubled sleep
LoopFetchFail(i) ==
    /\ loops[i].pc = "fetch"
    /\ LET r1 == publish_error(state, "poll_messages", dicts)
           r2 == publish_error(r1.state, "message_polling", dicts)
       IN  /\ state' = r2.state
           /\ events' = r1.events \o r2.events
    /\ loops' = [loops EXCEPT ![i] = Task("sleep", error_sleep(poll_interval), TRUE,
                                          Min(loops[i].fails + 1, MaxFails))]
    /\ UNCHANGED <<dicts, tmRef, message_cache, polling_active, current_thread,
                   initPc, inits, sendPc, sendReq, sends, received, pollPre,
                   pollSnap>>
    /\ UNCHANGED <<busVars, extVars>>

\* the fetch returned snap for the threads in Guids and, after them, an
\* entry whose message list is not a list: poll_messages has cached and
\* announced the new messages of snap when `for msg in messages` raises, then
\* the except clause of poll_messages and the except clause of the loop
LoopFetchAborted(i, snap) ==
    /\ loops[i].pc = "fetch"
    /\ LET updates == poll_updates(message_cache, snap)
           d == dicts[tmRef]
           recv == poll_received(updates, d, 1)
           ev(e) == Event("MESSAGE_RECEIVED", e.thread_guid)
           r1 == publish_error(state, "poll_messages", dicts)
           r2 == publish_error(r1.state, "message_polling", dicts)
       IN  /\ message_cache' = poll_cache(message_cache, snap)
           /\ received' = recv
           /\ state' = r2.state
           /\ events' = [k \in 1..Len(recv) |-> ev(recv[k])] \o r1.events \o r2.events
           /\ pollPre' = d
    /\ pollSnap' = snap
    /\ loops' = [loops EXCEPT ![i] = Task("sleep", error_sleep(poll_interval), TRUE,
                                          Min(loops[i].fails + 1, MaxFails))]
    /\ UNCHANGED <<dicts, tmRef, polling_active, current_thread, initPc, inits,
                   sendPc, sendReq, sends>>
    /\ UNCHANGED <<busVars, extVars>>

(***************************************************************************)
(* ChatController.shutdown                                                 *)
(***************************************************************************)
Shutdown ==
    /\ polling_active' = FALSE
    /\ LET r1 == update_state_polling(state, FALSE, dicts)
           r2 == controller_update_state(r1.state, "disconnected", dicts)
       IN  /\ state' = r2.state
           /\ events' = r1.events \o r2.events \o <<Event("STATE_CHANGED", "shutdown")>>
    /\ UNCHANGED <<dicts, tmRef, message_cache, current_thread, loops, initPc,
                   inits, sendPc, sendReq, sends, received, pollPre, pollSnap>>
    /\ UNCHANGED <<busVars, extVars>>

(***************************************************************************)
(* ChatController._handle_thread_selected and its update_ui callback       *)
(***************************************************************************)
SelectThread(g) ==
    /\ g \in DOMAIN dicts[tmRef]
    /\ current_thread # g
    /\ current_thread' = g
    /\ LET r == update_current_thread(state, g, dicts)
       IN  /\ state' = r.state
           /\ events' = <<Event("UI_REFRESH_REQUESTED", "update_thread")>> \o r.events
    /\ UNCHANGED <<dicts, tmRef, message_cache, polling_active, loops, initPc,
                   inits, sendPc, sendReq, sends, received, pollPre, pollSnap>>
    /\ UNCHANGED <<busVars, extVars>>

(***************************************************************************)
(* ChatController._handle_send_message, run on a pool thread of the bus    *)
(***************************************************************************)
\* the handler up to the await of message_service.send_message
SendRequest(text) ==
    /\ sendPc = "idle"
    /\ sends < MaxSends
    /\ sends' = sends + 1
    /\ IF current_thread = None
       THEN /\ events' = <<Event("DISPLAY_ERROR", "")>>
            /\ UNCHANGED <<sendPc, sendReq>>
       ELSE /\ sendPc' = "posting"
            /\ sendReq' = [thread |-> current_thread, text |-> text]
            /\ UNCHANGED events
    /\ UNCHANGED <<dicts, tmRef, message_cache, state, polling_active,
                   current_thread, loops, initPc, inits, received, pollPre,
                   pollSnap>>
    /\ UNCHANGED <<busVars, extVars>>

\* the POST succeeded: send_message publishes MESSAGE_SENT and returns True
SendOk ==
    /\ sendPc = "posting"
    /\ sendPc' = "sent"
    /\ events' = <<Event("MESSAGE_SENT", sendReq.thread)>>
    /\ UNCHANGED <<dicts, tmRef, message_cache, state, polling_active,
                   current_thread, loops, initPc, inits, sendReq, sends,
                   received, pollPre, pollSnap>>
    /\ UNCHANGED <<busVars, extVars>>

\* the POST raised: the except clause of send_message publishes
\* ERROR_OCCURRED and re-raises, so its caller gets the exception
SendFail ==
    /\ sendPc = "posting"
    /\ sendPc' = "raised"
    /\ LET r == publish_error(state, "send_message", dicts)
       IN  /\ state' = r.state
           /\ events' = r.events
    /\ UNCHANGED <<dicts, tmRef, message_cache, polling_active, current_thread,
                   loops, initPc, inits, sendReq, sends, received, pollPre,
                   pollSnap>>
    /\ UNCHANGED <<busVars, extVars>>

\* the except clause of _handle_send_message catches what send_message raised
SendCaught ==
    /\ sendPc = "raised"
    /\ sendPc' = "idle"
    /\ LET r == publish_error(state, "send_message", dicts)
       IN  /\ state' = r.state
           /\ events' = r.events
    /\ UNCHANGED <<dicts, tmRef, message_cache, polling_active, current_thread,
                   loops, initPc, inits, sendReq, sends, received, pollPre,
                   pollSnap>>
    /\ UNCHANGED <<busVars, extVars>>

\* the success branch: the outgoing Message, stamped now, is merged with
\* update_thread into the thread that is current at this moment
SendMerge(now) ==
    /\ sendPc = "sent"
    /\ sendPc' = "idle"
    /\ IF current_thread = None
       THEN LET r == publish_error(state, "send_message", dicts)
            IN  /\ state' = r.state
                /\ events' = r.events
                /\ UNCHANGED dicts
       ELSE LET message == Message(sendReq.text, "Me", now, "outgoing", "")
                merged == update_thread(dicts[tmRef], current_thread, <<message>>)
                hp == [dicts EXCEPT ![tmRef] = merged]
                r == mirror_threads(state, tmRef, hp)
            IN  /\ WithinCap(merged)
                /\ dicts' = hp
                /\ state' = r.state
                /\ events' = r.events \o <<Event("THREAD_UPDATED", "updated")>>
    /\ UNCHANGED <<tmRef, message_cache, polling_active, current_thread, loops,
                   initPc, inits, sendReq, sends, received, pollPre, pollSnap>>
    /\ UNCHANGED <<busVars, extVars>>

(***************************************************************************)
(* ThreadManager.create_thread, and update_thread called for a thread      *)
(***************************************************************************)
Phones == {"5551"}

\* display names passed to create_thread; None stands for no name
ThreadNames == {None, "Alice"}

TicksPerSecond == 1000 * TicksPerMs

\* clock readings of create_thread: two within one second, one in the next
CreateTimes == {1, 2, TicksPerSecond + 1}

\* int(datetime.now().timestamp())
WholeSeconds(now) == now \div TicksPerSecond

\* f"thread_{phone_number}_{int(datetime.now().timestamp())}"
thread_guid(phone, now) ==
    CASE phone = "5551" /\ WholeSeconds(now) = 0 -> "thread_5551_0"
      [] phone = "5551" /\ WholeSeconds(now) = 1 -> "thread_5551_1"

\* the registry after create_thread: the new Thread object is stored under
\* its guid whatever the dictionary holds there
create_thread(d, phone, name, now) ==
    DictPut(d, thread_guid(phone, now),
            Thread(IF name = None THEN phone ELSE name, <<>>))

\* ThreadManager.create_thread
CreateThread(phone, name, now) ==
    /\ LET created == create_thread(dicts[tmRef], phone, name, now)
           hp == [dicts EXCEPT ![tmRef] = created]
           r == update_state(state, AppState(state.connection_state,
                                             thread_guid(phone, now),
                                             state.is_polling, None, tmRef), hp)
       IN  /\ dicts' = hp
           /\ state' = r.state
           /\ events' = r.events \o <<Event("THREAD_UPDATED", "created")>>
    /\ UNCHANGED <<tmRef, message_cache, polling_active, current_thread, loops,
                   initPc, inits, sendPc, sendReq, sends, received, pollPre,
                   pollSnap>>
    /\ UNCHANGED <<busVars, extVars>>

\* ThreadManager.update_thread(g, [message]) for an outgoing message
\* stamped now; g may or may not be in the registry
UpdateThread(g, now) ==
    /\ LET message == Message("reply", "Me", now, "outgoing", "")
           merged == update_thread(dicts[tmRef], g, <<message>>)
           hp == [dicts EXCEPT ![tmRef] = merged]
           r == mirror_threads(state, tmRef, hp)
       IN  /\ WithinCap(merged)
           /\ dicts' = hp
           /\ state' = r.state
           /\ events' = r.events \o <<Event("THREAD_UPDATED", "updated")>>
    /\ UNCHANGED <<tmRef, message_cache, polling_active, current_thread, loops,
                   initPc, inits, sendPc, sendReq, sends, received, pollPre,
                   pollSnap>>
    /\ UNCHANGED <<busVars, extVars>>

(***************************************************************************)
(* ThreadManager.delete_thread and ChatController._handle_thread_deleted    *)
(***************************************************************************)
\* del self._threads[guid]
DictRemove(d, g) == [x \in (DOMAIN d) \ {g} |-> d[x]]

\* delete_thread that clears the current thread whatever it is
new_current_thread_cleared(cur, guid) == None

\* None if current_state.current_thread_guid == guid else the guid it holds
new_current_thread(cur, guid) == IF cur = guid THEN None ELSE cur

\* delete_thread that publishes THREAD_DELETED for an unknown guid as well
delete_thread_announcing(st, ref, hp, guid) ==
    IF guid \in DOMAIN hp[ref]
    THEN LET heap == [hp EXCEPT ![ref] = DictRemove(hp[ref], guid)]
             r == update_state(st, AppState(st.connection_state,
                                   new_current_thread(st.current_thread_guid, guid),
                                   st.is_polling, None, ref), heap)
         IN  [dicts |-> heap, state |-> r.state,
              events |-> r.events \o <<Event("THREAD_DELETED", "deleted")>>]
    ELSE [dicts |-> hp, state |-> st,
          events |-> <<Event("THREAD_DELETED", "deleted")>>]

\* delete_thread(guid): heap, state and events when the call returns
delete_thread(st, ref, hp, guid) ==
    IF guid \in DOMAIN hp[ref]
    THEN LET heap == [hp EXCEPT ![ref] = DictRemove(hp[ref], guid)]
             r == update_state(st, AppState(st.connection_state,
                                   new_current_thread(st.current_thread_guid, guid),
                                   st.is_polling, None, ref), heap)
         IN  [dicts |-> heap, state |-> r.state,
              events |-> r.events \o <<Event("THREAD_DELETED", "deleted")>>]
    ELSE [dicts |-> hp, state |-> st, events |-> <<>>]

\* ThreadManager.delete_thread
DeleteThread(g) ==
    /\ LET r == delete_thread(state, tmRef, dicts, g)
       IN  /\ dicts' = r.dicts
           /\ state' = r.state
           /\ events' = r.events
    /\ UNCHANGED <<tmRef, message_cache, polling_active, current_thread, loops,
                   initPc, inits, sendPc, sendReq, sends, received, pollPre,
                   pollSnap>>
    /\ UNCHANGED <<busVars, extVars>>

\* ChatController._handle_thread_deleted for a THREAD_DELETED event that
\* names g: delete_thread, then the display is cleared when g is the thread
\* the controller shows
HandleThreadDeleted(g) ==
    /\ LET r == delete_thread(state, tmRef, dicts, g)
           shown == current_thread = g
           c == IF shown THEN update_current_thread(r.state, None, r.dicts)
                ELSE [state |-> r.state, events |-> <<>>]
       IN  /\ dicts' = r.dicts
           /\ state' = c.state
           /\ events' = r.events \o c.events
           /\ current_thread' = IF shown THEN None ELSE current_thread
    /\ UNCHANGED <<tmRef, message_cache, polling_active, loops, initPc, inits,
                   sendPc, sendReq, sends, received, pollPre, pollSnap>>
    /\ UNCHANGED <<busVars, extVars>>

(***************************************************************************)
(* EventBus                                                                *)
(***************************************************************************)
BusTypes == {"MESSAGE_RECEIVED", "STATE_CHANGED"}

\* callbacks that can be registered: two plain functions, a function that
\* raises on every call, and a coroutine function
Callbacks == {"h1", "h2", "bad", "coro"}
Raising == {"bad"}
Coroutines == {"coro"}

CallInit == removal = <<>>

BusInit ==
    /\ subscribers = [t \in BusTypes |-> <<>>]
    /\ published = None
    /\ invoked = <<>>
    /\ submitted = <<>>
    /\ escaped = FALSE

\* the call callback(event) of a synchronous subscriber
call(cb) == IF cb \in Raising THEN "raised" ELSE "returned"

\* what the for loop of publish does after a synchronous callback: the
\* try/except Exception is inside the loop, so it goes on in both cases
after_callback_propagate(outcome) ==
    IF outcome = "raised" THEN "propagate" ELSE "continue"

after_callback(outcome) == "continue"

\* the for loop of EventBus.publish over the snapshot copy subs
RECURSIVE dispatch(_)
dispatch(subs) ==
    IF subs = <<>> THEN [invoked |-> <<>>, submitted |-> <<>>, escaped |-> FALSE]
    ELSE LET cb == Head(subs)
         IN  IF cb \in Coroutines
             THEN LET rest == dispatch(Tail(subs))
                  IN  [rest EXCEPT !.submitted = <<cb>> \o @]
             ELSE IF after_callback(call(cb)) = "continue"
                  THEN LET rest == dispatch(Tail(subs))
                       IN  [rest EXCEPT !.invoked = <<cb>> \o @]
                  ELSE [invoked |-> <<cb>>, submitted |-> <<>>, escaped |-> TRUE]

\* list.remove: the first occurrence of cb is removed, if there is one
RECURSIVE RemoveFirst(_, _)
RemoveFirst(seq, cb) ==
    IF seq = <<>> THEN <<>>
    ELSE IF Head(seq) = cb THEN Tail(seq)
    ELSE <<Head(seq)>> \o RemoveFirst(Tail(seq), cb)

\* subscribe putting the callback in front of the list
SubscribeFirst(t, cb) ==
    /\ Len(subscribers[t]) < MaxSubs
    /\ subscribers' = [subscribers EXCEPT ![t] = <<cb>> \o @]
    /\ published' = None
    /\ invoked' = <<>>
    /\ submitted' = <<>>
    /\ escaped' = FALSE
    /\ removal' = <<>>
    /\ UNCHANGED callRest

\* EventBus.subscribe
Subscribe(t, cb) ==
    /\ Len(subscribers[t]) < MaxSubs
    /\ subscribers' = [subscribers EXCEPT ![t] = Append(@, cb)]
    /\ published' = None
    /\ invoked' = <<>>
    /\ submitted' = <<>>
    /\ escaped' = FALSE
    /\ removal' = <<>>
    /\ UNCHANGED callRest

Count(seq, cb) == Cardinality({i \in 1..Len(seq) : seq[i] = cb})

\* the other callbacks of a list
Others(seq, cb) ==
    LET other(x) == x # cb
    IN  SelectSeq(seq, other)

\* unsubscribe removing every registration of the callback
UnsubscribeAll(t, cb) ==
    /\ subscribers' = [subscribers EXCEPT ![t] = Others(@, cb)]
    /\ published' = None
    /\ invoked' = <<>>
    /\ submitted' = <<>>
    /\ escaped' = FALSE
    /\ removal' = <<Count(subscribers[t], cb)>>
    /\ UNCHANGED callRest

\* EventBus.unsubscribe
Unsubscribe(t, cb) ==
    /\ subscribers' = [subscribers EXCEPT ![t] = RemoveFirst(@, cb)]
    /\ published' = None
    /\ invoked' = <<>>
    /\ submitted' = <<>>
    /\ escaped' = FALSE
    /\ removal' = <<Count(subscribers[t], cb)>>
    /\ UNCHANGED callRest

\* EventBus.publish of an event of type t
Publish(t) ==
    /\ LET r == dispatch(subscribers[t])
       IN  /\ invoked' = r.invoked
           /\ submitted' = r.submitted
           /\ escaped' = r.escaped
    /\ published' = t
    /\ UNCHANGED subscribers
    /\ removal' = <<>>
    /\ UNCHANGED callRest

(***************************************************************************)
(* EventBus with its lock, called from one thread whose synchronous        *)
(* handlers call back into the bus                                         *)
(***************************************************************************)
\* synchronous callbacks that may call subscribe, unsubscribe or publish
ReCallbacks == {"h1", "h2"}

\* the event type these callbacks are registered for and publish again
ReTypes == {"STATE_CHANGED"}

Frame(t, snapshot, next, pc) ==
    [type |-> t, snapshot |-> snapshot, next |-> next, pc |-> pc]

Top == frames[Len(frames)]

SetTop(f) == [frames EXCEPT ![Len(frames)] = f]

\* the thread is outside publish, or inside a handler called by publish
CanCall == ~blocked /\ (IF frames = <<>> THEN TRUE ELSE Top.pc = "handler")

\* number of registrations on the bus, over all event types
Registrations == Len(subscribers["MESSAGE_RECEIVED"]) + Len(subscribers["STATE_CHANGED"])

ExtInit ==
    /\ busLock = "free"
    /\ frames = <<>>
    /\ ledger = [t \in BusTypes |-> [cb \in ReCallbacks |-> 0]]
    /\ blocked = FALSE

\* EventBus.subscribe: threading.Lock is not reentrant, so acquiring it
\* while this thread holds it never returns
LockSubscribe(t, cb) ==
    /\ CanCall
    /\ Registrations < MaxRegs
    /\ IF busLock = "held"
       THEN blocked' = TRUE /\ UNCHANGED <<subscribers, ledger>>
       ELSE /\ subscribers' = [subscribers EXCEPT ![t] = Append(@, cb)]
            /\ ledger' = [ledger EXCEPT ![t][cb] = @ + 1]
            /\ UNCHANGED blocked
    /\ UNCHANGED <<busLock, frames, published, invoked, submitted, escaped>>
    /\ UNCHANGED lockRest

\* EventBus.unsubscribe
LockUnsubscribe(t, cb) ==
    /\ CanCall
    /\ IF busLock = "held"
       THEN blocked' = TRUE /\ UNCHANGED <<subscribers, ledger>>
       ELSE /\ subscribers' = [subscribers EXCEPT ![t] = RemoveFirst(@, cb)]
            /\ ledger' = [ledger EXCEPT ![t][cb] = IF @ > 0 THEN @ - 1 ELSE 0]
            /\ UNCHANGED blocked
    /\ UNCHANGED <<busLock, frames, published, invoked, submitted, escaped>>
    /\ UNCHANGED lockRest

\* EventBus.publish, entering the with block: the list is copied under the lock
PublishEnter(t) ==
    /\ CanCall
    /\ Len(frames) < MaxDepth
    /\ IF busLock = "held"
       THEN blocked' = TRUE /\ UNCHANGED <<busLock, frames>>
       ELSE /\ busLock' = "held"
            /\ frames' = Append(frames, Frame(t, subscribers[t], 1, "copied"))
            /\ UNCHANGED blocked
    /\ UNCHANGED <<subscribers, ledger, published, invoked, submitted, escaped>>
    /\ UNCHANGED lockRest

\* leaving the with block while keeping the lock for the for loop
PublishCopiedHolding ==
    /\ frames # <<>> /\ Top.pc = "copied"
    /\ frames' = SetTop([Top EXCEPT !.pc = "loop"])
    /\ UNCHANGED <<busLock, subscribers, ledger, blocked, published, invoked,
                   submitted, escaped>>
    /\ UNCHANGED lockRest

\* EventBus.publish, leaving the with block: the lock is released before the
\* for loop starts
PublishCopied ==
    /\ frames # <<>> /\ Top.pc = "copied"
    /\ busLock' = "free"
    /\ frames' = SetTop([Top EXCEPT !.pc = "loop"])
    /\ UNCHANGED <<subscribers, ledger, blocked, published, invoked, submitted,
                   escaped>>
    /\ UNCHANGED lockRest

\* the for loop calls the next callback of the copy
HandlerCall ==
    /\ frames # <<>> /\ Top.pc = "loop" /\ Top.next <= Len(Top.snapshot)
    /\ frames' = SetTop([Top EXCEPT !.pc = "handler"])
    /\ UNCHANGED <<busLock, subscribers, ledger, blocked, published, invoked,
                   submitted, escaped>>
    /\ UNCHANGED lockRest

\* the callback returns (or raises into the except clause of the loop)
HandlerReturn ==
    /\ ~blocked
    /\ frames # <<>> /\ Top.pc = "handler"
    /\ frames' = SetTop([Top EXCEPT !.pc = "loop", !.next = @ + 1])
    /\ UNCHANGED <<busLock, subscribers, ledger, blocked, published, invoked,
                   submitted, escaped>>
    /\ UNCHANGED lockRest

\* the for loop is exhausted and publish returns
PublishReturn ==
    /\ frames # <<>> /\ Top.pc = "loop" /\ Top.next > Len(Top.snapshot)
    /\ frames' = SubSeq(frames, 1, Len(frames) - 1)
    /\ UNCHANGED <<busLock, subscribers, ledger, blocked, published, invoked,
                   submitted, escaped>>
    /\ UNCHANGED lockRest

(***************************************************************************)
(* StateManager.update_state called with an arbitrary new state            *)
(***************************************************************************)
\* values of current_thread_guid: no thread, a thread of the remote source,
\* a thread made by create_thread
CurrentGuids == Guids \cup {None, "thread_5551_0"}

AppStates ==
    [connection_state : ConnectionStates, current_thread_guid : CurrentGuids,
     is_polling : BOOLEAN, error_message : {None, "timeout"},
     threads : {1, 2}]

StoreUpdate(new) ==
    /\ LET r == update_state(state, new, dicts)
       IN  /\ state' = r.state
           /\ events' = r.events
           /\ trace' = r.trace
    /\ UNCHANGED <<dicts, tmRef, message_cache, polling_active, current_thread,
                   loops, initPc, inits, sendPc, sendReq, sends, received,
                   pollPre, pollSnap>>
    /\ UNCHANGED observers
    /\ UNCHANGED obsRest

\* observers that can be registered with the store
Observers == {"o1", "o2"}

ObsInit ==
    /\ observers = <<>>
    /\ trace = <<>>

\* StateManager.add_observer
AddObserver(o) ==
    /\ Len(observers) < MaxObservers
    /\ observers' = Append(observers, o)
    /\ UNCHANGED <<syncVars, trace>>
    /\ UNCHANGED obsRest

\* StateManager.remove_observer
RemoveObserver(o) ==
    /\ observers' = RemoveFirst(observers, o)
    /\ UNCHANGED <<syncVars, trace>>
    /\ UNCHANGED obsRest

(***************************************************************************)
(* StateManager.get_state and update_state called from several threads     *)
(***************************************************************************)
Workers == {"w1", "w2"}

InitialState == AppState("disconnected", None, FALSE, None, 1)

\* states the threads pass to update_state
StoreInputs ==
    {AppState("connecting", None, FALSE, None, 1),
     AppState("connected", None, FALSE, None, 1),
     AppState("connected", "T1", TRUE, None, 1)}

Caller(pc, old, new, got) == [pc |-> pc, old |-> old, new |-> new, got |-> got]

StoreInit ==
    /\ storeLock = None
    /\ callers = [w \in Workers |-> Caller("idle", InitialState, InitialState, InitialState)]
    /\ commits = <<>>

\* entering update_state without waiting for the lock
UpdateAcquireUnlocked(w, new) ==
    /\ callers[w].pc = "idle"
    /\ Len(commits) + Cardinality({v \in Workers : callers[v].pc \in {"locked", "read"}}) < MaxUpdates
    /\ storeLock' = w
    /\ callers' = [callers EXCEPT ![w].pc = "locked", ![w].new = new]
    /\ UNCHANGED <<commits, syncVars>>
    /\ UNCHANGED threadRest

\* update_state: with self._lock
UpdateAcquire(w, new) ==
    /\ callers[w].pc = "idle"
    /\ Len(commits) + Cardinality({v \in Workers : callers[v].pc \in {"locked", "read"}}) < MaxUpdates
    /\ storeLock = None
    /\ storeLock' = w
    /\ callers' = [callers EXCEPT ![w].pc = "locked", ![w].new = new]
    /\ UNCHANGED <<commits, syncVars>>
    /\ UNCHANGED threadRest

\* old_state = self._state
UpdateRead(w) ==
    /\ callers[w].pc = "locked"
    /\ callers' = [callers EXCEPT ![w].pc = "read", ![w].old = state]
    /\ UNCHANGED <<storeLock, commits, syncVars>>
    /\ UNCHANGED threadRest

\* self._state = updated_state, and the changes dict built from old_state
UpdateWrite(w) ==
    /\ callers[w].pc = "read"
    /\ state' = callers[w].new
    /\ commits' = Append(commits, [by |-> w, old |-> callers[w].old,
                                   new |-> callers[w].new])
    /\ callers' = [callers EXCEPT ![w].pc = "written"]
    /\ UNCHANGED <<dicts, tmRef, message_cache, polling_active, current_thread,
                   loops, initPc, inits, sendPc, sendReq, sends, events,
                   received, pollPre, pollSnap>>
    /\ UNCHANGED storeLock
    /\ UNCHANGED threadRest

\* leaving the with block
UpdateRelease(w) ==
    /\ callers[w].pc = "written"
    /\ storeLock' = None
    /\ callers' = [callers EXCEPT ![w].pc = "notify"]
    /\ UNCHANGED <<commits, syncVars>>
    /\ UNCHANGED threadRest

\* the events of this update, published after the lock was released
UpdateNotify(w) ==
    /\ callers[w].pc = "notify"
    /\ LET changes == Changes(callers[w].old, callers[w].new, dicts)
       IN  events' = (IF changes.connection_changed
                      THEN <<Event("CONNECTION_CHANGED", "")>> ELSE <<>>)
                  \o (IF changes.thread_changed
                      THEN <<Event("THREAD_SELECTED", "")>> ELSE <<>>)
                  \o <<Event("STATE_CHANGED", "")>>
    /\ callers' = [callers EXCEPT ![w].pc = "idle"]
    /\ UNCHANGED <<dicts, tmRef, message_cache, state, polling_active,
                   current_thread, loops, initPc, inits, sendPc, sendReq, sends,
                   received, pollPre, pollSnap>>
    /\ UNCHANGED <<storeLock, commits>>
    /\ UNCHANGED threadRest

\* StateManager.get_state: the reference is read under the lock
GetState(w) ==
    /\ callers[w].pc = "idle"
    /\ storeLock = None
    /\ callers' = [callers EXCEPT ![w].got = state]
    /\ UNCHANGED <<storeLock, commits, syncVars>>
    /\ UNCHANGED threadRest

(***************************************************************************)
(* StateManager.update_partial_state                                       *)
(***************************************************************************)
\* keyword arguments the threads pass to update_partial_state
PartialFields ==
    {[is_polling |-> TRUE],
     [connection_state |-> "connected"],
     [current_thread_guid |-> "T1", error_message |-> "timeout"]}

\* AppState(field=kwargs.get(field, current_state.field), ...)
partial_state(cur, kwargs) ==
    [f \in DOMAIN cur |-> IF f \in DOMAIN kwargs THEN kwargs[f] ELSE cur[f]]

\* update_partial_state: with self._lock, and the new state built from
\* self._state inside the block
PartialAcquire(w, kwargs) ==
    /\ callers[w].pc = "idle"
    /\ storeLock = None
    /\ storeLock' = w
    /\ callers' = [callers EXCEPT ![w].pc = "partial", ![w].old = state,
                                  ![w].new = partial_state(state, kwargs)]
    /\ UNCHANGED <<commits, syncVars>>
    /\ UNCHANGED threadRest

\* self.update_state(new_state), called inside the with block: the with
\* statement of update_state acquires the same threading.Lock, which waits
\* until the lock is free whoever holds it
PartialCall(w) ==
    /\ callers[w].pc \in {"partial", "waiting"}
    /\ IF storeLock = None
       THEN /\ storeLock' = w
            /\ callers' = [callers EXCEPT ![w].pc = "locked"]
       ELSE /\ storeLock' = storeLock
            /\ callers' = [callers EXCEPT ![w].pc = "waiting"]
    /\ UNCHANGED <<commits, syncVars>>
    /\ UNCHANGED threadRest

(***************************************************************************)
(* The read-modify-write helpers called from several threads:              *)
(* ChatController._update_state, _update_state_polling and                 *)
(* _update_current_thread, each a get_state followed by an update_state    *)
(***************************************************************************)
\* the field a helper call sets and the value it sets it to
HelperCalls ==
    {<<"connection_state", "connected">>,
     <<"is_polling", TRUE>>,
     <<"current_thread_guid", "T1">>}

\* the AppState the helper builds from its copy of the state: the field it
\* is about, the other fields from the copy, error_message left out
helper_new_state(cur, field, value) ==
    AppState(IF field = "connection_state" THEN value ELSE cur.connection_state,
             IF field = "current_thread_guid" THEN value ELSE cur.current_thread_guid,
             IF field = "is_polling" THEN value ELSE cur.is_polling,
             None, cur.threads)

\* current_state = self.state_manager.get_state() and the AppState(...) call
HelperRead(w, field, value) ==
    /\ callers[w].pc = "idle"
    /\ storeLock = None
    /\ Len(commits) + Cardinality({v \in Workers : callers[v].pc = "helper"}) < MaxUpdates
    /\ callers' = [callers EXCEPT ![w] = Caller("helper", state,
                                                helper_new_state(state, field, value),
                                                state)]
    /\ UNCHANGED <<storeLock, commits, syncVars>>
    /\ UNCHANGED threadRest

\* self.state_manager.update_state(new_state), with the subscribers it calls
HelperWrite(w) ==
    /\ callers[w].pc = "helper"
    /\ storeLock = None
    /\ LET r == update_state(state, callers[w].new, dicts)
       IN  /\ state' = r.state
           /\ events' = r.events
    /\ commits' = Append(commits, [by |-> w, old |-> state, new |-> callers[w].new])
    /\ callers' = [callers EXCEPT ![w].pc = "idle"]
    /\ UNCHANGED <<dicts, tmRef, message_cache, polling_active, current_thread,
                   loops, initPc, inits, sendPc, sendReq, sends, received,
                   pollPre, pollSnap>>
    /\ UNCHANGED storeLock
    /\ UNCHANGED threadRest

(***************************************************************************)
(* EventBus._executor: the pool that runs the coroutine subscribers        *)
(***************************************************************************)
PoolInit ==
    /\ poolQueued = 0
    /\ poolRunning = 0
    /\ poolHung = 0
    /\ execs = 0

\* EventBus.publish of an event of type t, with the executor: submit puts
\* one execution per coroutine subscriber into the queue and returns
PublishAsync(t) ==
    /\ LET r == dispatch(subscribers[t])
       IN  /\ execs + Len(r.submitted) <= MaxExecs
           /\ invoked' = r.invoked
           /\ submitted' = r.submitted
           /\ escaped' = r.escaped
           /\ poolQueued' = poolQueued + Len(r.submitted)
           /\ execs' = execs + Len(r.submitted)
    /\ published' = t
    /\ UNCHANGED <<subscribers, poolRunning, poolHung>>
    /\ UNCHANGED poolRest

\* a free worker thread takes the next execution from the queue and calls
\* _run_async_callback; hangs tells whether the coroutine ever completes
PoolStart(hangs) ==
    /\ poolQueued > 0
    /\ poolRunning + poolHung < max_workers
    /\ poolQueued' = poolQueued - 1
    /\ IF hangs
       THEN poolHung' = poolHung + 1 /\ UNCHANGED poolRunning
       ELSE poolRunning' = poolRunning + 1 /\ UNCHANGED poolHung
    /\ UNCHANGED <<execs, busVars>>
    /\ UNCHANGED poolRest

\* _run_async_callback returns, normally or through its except clauses, and
\* the worker thread is free again
PoolFinish ==
    /\ poolRunning > 0
    /\ poolRunning' = poolRunning - 1
    /\ UNCHANGED <<poolQueued, poolHung, execs, busVars>>
    /\ UNCHANGED poolRest

(***************************************************************************)
(* ChatController.shutdown called from several threads: the flag, then     *)
(* _update_state_polling(False) and _update_state(DISCONNECTED), each a    *)
(* get_state followed by an update_state, then the final publish           *)
(***************************************************************************)
\* pc: where the thread is; cur: what its last get_state returned; conn: the
\* state carried by the CONNECTION_CHANGED event its handler is serving;
\* ret: where shutdown goes on when the update_state in progress returns;
\* depth: update_state calls of the thread that wait for a handler
Stopper(pc, cur, conn, ret, depth) ==
    [pc |-> pc, cur |-> cur, conn |-> conn, ret |-> ret, depth |-> depth]

StopInit ==
    /\ stoppers = [w \in Workers |-> Stopper("idle", InitialState, "disconnected", "idle", 0)]
    /\ stopCalls = <<>>
    /\ stopState = <<>>

\* no thread is inside shutdown
Quiet == \A w \in Workers : stoppers[w].pc = "idle"

\* a shutdown whose first statement inverts the flag
StopFlagToggle(w) ==
    /\ stoppers[w].pc = "idle"
    /\ initPc = "idle" /\ inits >= 1
    /\ Len(stopCalls) < MaxStops
    /\ polling_active' = ~polling_active
    /\ stoppers' = [stoppers EXCEPT ![w].pc = "readA"]
    /\ stopCalls' = Append(stopCalls, w)
    /\ events' = <<>>
    /\ UNCHANGED <<dicts, tmRef, message_cache, state, current_thread, loops,
                   initPc, inits, sendPc, sendReq, sends, received, pollPre,
                   pollSnap>>
    /\ UNCHANGED stopState
    /\ UNCHANGED stopRest

\* self._polling_active = False, once initialize has returned
StopFlag(w) ==
    /\ stoppers[w].pc = "idle"
    /\ initPc = "idle" /\ inits >= 1
    /\ Len(stopCalls) < MaxStops
    /\ polling_active' = FALSE
    /\ stoppers' = [stoppers EXCEPT ![w].pc = "readA"]
    /\ stopCalls' = Append(stopCalls, w)
    /\ events' = <<>>
    /\ UNCHANGED <<dicts, tmRef, message_cache, state, current_thread, loops,
                   initPc, inits, sendPc, sendReq, sends, received, pollPre,
                   pollSnap>>
    /\ UNCHANGED stopState
    /\ UNCHANGED stopRest

\* current_state = self.state_manager.get_state() of _update_state_polling,
\* of _update_state, and of the _update_state that _handle_connection_change calls
StopRead(w) ==
    /\ stoppers[w].pc \in {"readA", "readB", "hread"}
    /\ stoppers' = [stoppers EXCEPT
                      ![w].cur = state,
                      ![w].pc = CASE stoppers[w].pc = "readA" -> "writeA"
                                  [] stoppers[w].pc = "readB" -> "writeB"
                                  [] stoppers[w].pc = "hread" -> "hwrite"]
    /\ UNCHANGED <<syncVars, stopCalls, stopState>>
    /\ UNCHANGED stopRest

\* the AppState that the thread builds from its copy of the state
stop_new_state(s) ==
    CASE s.pc = "writeA" -> AppState(s.cur.connection_state, s.cur.current_thread_guid,
                                     FALSE, None, s.cur.threads)
      [] s.pc = "writeB" -> controller_new_state(s.cur, "disconnected")
      [] s.pc = "hwrite" -> controller_new_state(s.cur, s.conn)

\* state_manager.update_state(new_state): the swap, and the publishes up to
\* the call of _handle_connection_change or, without one, to the return of
\* this update_state and of those that wait for it
StopWrite(w) ==
    /\ stoppers[w].pc \in {"writeA", "writeB", "hwrite"}
    /\ LET s == stoppers[w]
           new == stop_new_state(s)
           changes == Changes(state, new, dicts)
           ret == CASE s.pc = "writeA" -> "readB"
                    [] s.pc = "writeB" -> "publish"
                    [] s.pc = "hwrite" -> s.ret
       IN  /\ changes.connection_changed => s.depth < MaxHandlers
           /\ state' = new
           /\ IF changes.connection_changed
              THEN /\ stoppers' = [stoppers EXCEPT
                                     ![w] = Stopper("hread", s.cur, new.connection_state,
                                                    ret, s.depth + 1)]
                   /\ events' = <<Event("CONNECTION_CHANGED", "")>>
              ELSE /\ stoppers' = [stoppers EXCEPT
                                     ![w] = Stopper(ret, s.cur, s.conn, ret, 0)]
                   /\ events' = (IF changes.thread_changed
                                 THEN <<Event("THREAD_SELECTED", "")>> ELSE <<>>)
                                \o [k \in 1..(s.depth + 1) |-> Event("STATE_CHANGED", "")]
    /\ UNCHANGED <<dicts, tmRef, message_cache, polling_active, current_thread,
                   loops, initPc, inits, sendPc, sendReq, sends, received,
                   pollPre, pollSnap>>
    /\ UNCHANGED <<stopCalls, stopState>>
    /\ UNCHANGED stopRest

\* the publish of STATE_CHANGED with reason "shutdown", and the return
StopReturn(w) ==
    /\ stoppers[w].pc = "publish"
    /\ stoppers' = [stoppers EXCEPT ![w].pc = "idle"]
    /\ events' = <<Event("STATE_CHANGED", "shutdown")>>
    /\ stopState' = IF stopState = <<>> /\ (\A v \in Workers \ {w} : stoppers[v].pc = "idle")
                    THEN <<state>> ELSE stopState
    /\ UNCHANGED <<dicts, tmRef, message_cache, state, polling_active,
                   current_thread, loops, initPc, inits, sendPc, sendReq, sends,
                   received, pollPre, pollSnap>>
    /\ UNCHANGED stopCalls
    /\ UNCHANGED stopRest

(***************************************************************************)
(* StateManager.update_state, observer by observer: the for loop reads     *)
(* self._observers itself, outside the lock, while add_observer and        *)
(* remove_observer may be called by an observer or by another thread       *)
(***************************************************************************)
\* observers that can be registered: two plain callables and one that raises
NotifyObservers == Observers \cup {"obad"}
RaisingObservers == {"obad"}

\* pc: where the call is; idx: position of the list iterator; old, new: the
\* swap; applied: self._observers at the swap; notified: the observers the
\* loop has called, in order
Notifier(pc, idx, old, new, applied, notified) ==
    [pc |-> pc, idx |-> idx, old |-> old, new |-> new, applied |-> applied,
     notified |-> notified]

NotifyInit ==
    notifier = Notifier("idle", 1, InitialState, InitialState, <<>>, <<>>)

\* the call observer(updated_state)
observe(o) == IF o \in RaisingObservers THEN "raised" ELSE "returned"

\* the try/except Exception is inside the for loop: it goes on in both cases
after_observer(outcome) == "continue"

\* update_state: the with block
NotifyBegin(new) ==
    /\ notifier.pc = "idle"
    /\ notifier' = Notifier("loop", 1, state, new, observers, <<>>)
    /\ state' = new
    /\ events' = <<>>
    /\ trace' = <<>>
    /\ UNCHANGED <<dicts, tmRef, message_cache, polling_active, current_thread,
                   loops, initPc, inits, sendPc, sendReq, sends, received,
                   pollPre, pollSnap>>
    /\ UNCHANGED observers
    /\ UNCHANGED notifyRest

\* one turn of the for loop: the list iterator yields the element at its
\* position in the list as it is now
NotifyCall ==
    /\ notifier.pc = "loop"
    /\ notifier.idx <= Len(observers)
    /\ LET o == observers[notifier.idx]
       IN  notifier' = [notifier EXCEPT
                          !.notified = Append(@, o),
                          !.idx = @ + 1,
                          !.pc = IF after_observer(observe(o)) = "continue"
                                 THEN "loop" ELSE "raised"]
    /\ UNCHANGED <<syncVars, observers, trace>>
    /\ UNCHANGED notifyRest

\* the iterator is past the end of the list: the publishes of update_state
NotifyEnd ==
    /\ notifier.pc = "loop"
    /\ notifier.idx > Len(observers)
    /\ LET r == update_state(notifier.old, notifier.new, dicts)
       IN  /\ state' = IF state = notifier.new THEN r.state ELSE state
           /\ events' = r.events
           /\ trace' = [k \in 1..Len(notifier.notified) |-> Step("observer", 0)]
                       \o SubSeq(r.trace, Len(observers) + 1, Len(r.trace))
    /\ notifier' = [notifier EXCEPT !.pc = "idle"]
    /\ UNCHANGED <<dicts, tmRef, message_cache, polling_active, current_thread,
                   loops, initPc, inits, sendPc, sendReq, sends, received,
                   pollPre, pollSnap>>
    /\ UNCHANGED observers
    /\ UNCHANGED notifyRest

(***************************************************************************)
(* One top-level publish or update_state and the calls of the              *)
(* application's subscribers that follow from it, subscriber by subscriber *)
(***************************************************************************)
\* an event on the bus: arg is the state of CONNECTION_CHANGED, the context
\* of ERROR_OCCURRED, the thread_guid of the thread events (None when the
\* event has none); data is the thread_data of THREAD_UPDATED, or None
ChainEvent(type, arg, data) == [type |-> type, arg |-> arg, data |-> data]

\* the coroutine subscribers of ChatController run on pool threads, at any
\* time; _handle_error and _handle_connection_change are called inline
AsyncTypes ==
    {"THREAD_SELECTED", "THREAD_DELETED", "THREAD_UPDATED", "UI_REFRESH_REQUESTED"}

SubscribedTypes == AsyncTypes \cup {"ERROR_OCCURRED", "CONNECTION_CHANGED"}

\* the sequence without its k-th element
Without(seq, k) == SubSeq(seq, 1, k - 1) \o SubSeq(seq, k + 1, Len(seq))

ChainInit == chain = [pending |-> <<>>, steps |-> 0]

\* update_state up to the publishes: the swap, and the events that have a
\* subscriber of the application, which wait for it
chain_update(st, new, hp) ==
    LET changes == Changes(st, new, hp)
    IN  [state |-> new,
         out |-> (IF changes.connection_changed
                  THEN <<ChainEvent("CONNECTION_CHANGED", new.connection_state, None)>>
                  ELSE <<>>)
              \o (IF changes.thread_changed
                  THEN <<ChainEvent("THREAD_SELECTED", new.current_thread_guid, None)>>
                  ELSE <<>>)]

\* the events that ThreadManager published for thread g, as the subscribers
\* get them: none of them carries thread_data or thread_name
published_for(evs, g) ==
    LET subscribed(e) == e.type \in SubscribedTypes
        sel == SelectSeq(evs, subscribed)
    IN  [k \in 1..Len(sel) |-> ChainEvent(sel[k].type, g, None)]

\* update_thread_data(guid, data): the name is replaced when data has one
update_thread_data(st, ref, hp, guid, data) ==
    IF guid \in DOMAIN hp[ref]
    THEN LET thread == hp[ref][guid]
             heap == [hp EXCEPT ![ref] =
                         DictPut(hp[ref], guid,
                                 Thread(IF data = "read" THEN thread.name ELSE data,
                                        thread.messages))]
             r == mirror_threads(st, ref, heap)
         IN  [dicts |-> heap, state |-> r.state,
              events |-> r.events \o <<Event("THREAD_UPDATED", "metadata_updated")>>]
    ELSE [dicts |-> hp, state |-> st, events |-> <<>>]

\* the subscriber of the application for event e: the state, the heap and
\* the controller's current thread when it returns, and what it published
chain_handle(e, st, hp, ref, cur) ==
    LET same == [state |-> st, dicts |-> hp, current |-> cur, out |-> <<>>]
    IN  CASE e.type = "CONNECTION_CHANGED" ->
               LET u == chain_update(st, controller_new_state(st, e.arg), hp)
               IN  [state |-> u.state, dicts |-> hp, current |-> cur, out |-> u.out]
          [] e.type = "ERROR_OCCURRED" ->
               IF e.arg \in {"connection", "initialization"}
               THEN LET u == chain_update(st, controller_new_state(st, "error"), hp)
                    IN  [state |-> u.state, dicts |-> hp, current |-> cur, out |-> u.out]
               ELSE same
          [] e.type = "THREAD_DELETED" ->
               IF e.arg = None THEN same
               ELSE LET r == delete_thread(st, ref, hp, e.arg)
                        shown == cur = e.arg
                        c == IF shown
                             THEN chain_update(r.state,
                                      AppState(r.state.connection_state, None,
                                               r.state.is_polling, None,
                                               r.state.threads), r.dicts)
                             ELSE [state |-> r.state, out |-> <<>>]
                    IN  [state |-> c.state, dicts |-> r.dicts,
                         current |-> IF shown THEN None ELSE cur,
                         out |-> published_for(r.events, e.arg) \o c.out]
          [] e.type = "THREAD_UPDATED" ->
               IF e.arg = None \/ e.data = None THEN same
               ELSE LET r == update_thread_data(st, ref, hp, e.arg, e.data)
                    IN  [state |-> r.state, dicts |-> r.dicts, current |-> cur,
                         out |-> published_for(r.events, e.arg)
                                 \o (IF cur = e.arg
                                     THEN <<ChainEvent("UI_REFRESH_REQUESTED", e.arg, None)>>
                                     ELSE <<>>)]
          [] OTHER -> same

\* events that the user interface and the services publish
ChainEvents ==
    {ChainEvent("ERROR_OCCURRED", "connection", None),
     ChainEvent("ERROR_OCCURRED", "message_polling", None),
     ChainEvent("CONNECTION_CHANGED", "connected", None),
     ChainEvent("THREAD_DELETED", None, None),
     ChainEvent("THREAD_DELETED", "thread_5551_0", None),
     ChainEvent("THREAD_UPDATED", None, "read"),
     ChainEvent("THREAD_UPDATED", "thread_5551_0", "read"),
     ChainEvent("THREAD_UPDATED", "thread_5551_0", "Alice")}

\* a top-level update_state(new), made when the call before it is over
ChainUpdate(new) ==
    /\ chain.pending = <<>>
    /\ LET u == chain_update(state, new, dicts)
       IN  /\ state' = u.state
           /\ chain' = [pending |-> u.out, steps |-> 0]
           /\ events' = [k \in 1..Len(u.out) |-> Event(u.out[k].type, "")]
                        \o <<Event("STATE_CHANGED", "")>>
    /\ UNCHANGED <<dicts, tmRef, message_cache, polling_active, current_thread,
                   loops, initPc, inits, sendPc, sendReq, sends, received,
                   pollPre, pollSnap>>
    /\ UNCHANGED chainRest

\* a top-level publish(e), made when the call before it is over
ChainPublish(e) ==
    /\ chain.pending = <<>>
    /\ chain' = [pending |-> <<e>>, steps |-> 0]
    /\ events' = <<Event(e.type, "")>>
    /\ UNCHANGED <<dicts, tmRef, message_cache, state, polling_active,
                   current_thread, loops, initPc, inits, sendPc, sendReq, sends,
                   received, pollPre, pollSnap>>
    /\ UNCHANGED chainRest

\* the subscriber of the k-th waiting event runs: an inline subscriber runs
\* before everything its thread does next, a coroutine subscriber whenever
\* its pool thread gets to it
ChainHandle(k) ==
    /\ k \in 1..Len(chain.pending)
    /\ chain.steps < MaxChain
    /\ \/ chain.pending[k].type \in AsyncTypes
       \/ \A j \in 1..(k - 1) : chain.pending[j].type \in AsyncTypes
    /\ LET h == chain_handle(chain.pending[k], state, dicts, tmRef, current_thread)
       IN  /\ state' = h.state
           /\ dicts' = h.dicts
           /\ current_thread' = h.current
           /\ chain' = [pending |-> h.out \o Without(chain.pending, k),
                        steps |-> chain.steps + 1]
           /\ events' = [j \in 1..Len(h.out) |-> Event(h.out[j].type, "")]
    /\ UNCHANGED <<tmRef, message_cache, polling_active, loops, initPc, inits,
                   sendPc, sendReq, sends, received, pollPre, pollSnap>>
    /\ UNCHANGED chainRest

(***************************************************************************)
(* Specifications                                                          *)
(***************************************************************************)
vars == <<syncVars, busVars, extVars>>

Init == SyncInit /\ BusInit /\ ExtInit /\ StoreInit /\ ObsInit /\ PoolInit /\ StopInit /\ CallInit /\ NotifyInit /\ ChainInit

EmptySnapshot == [g \in Guids |-> <<>>]

\* one run of the controller: seed fetch, poll cycles with data, thread
\* selection and sends
Next ==
    \/ Initialize(1)
    \/ \E snap \in Snapshots : InitializeSeeded(snap)
    \/ \E snap \in Snapshots : InitializeSeedAborted(snap)
    \/ InitializeFailed
    \/ \E i \in 1..Len(loops) : LoopResume(i)
    \/ \E i \in 1..Len(loops) : \E snap \in Snapshots : LoopFetchOk(i, snap)
    \/ \E g \in Guids : SelectThread(g)
    \/ \E text \in SendTexts : SendRequest(text)
    \/ SendOk
    \/ SendFail
    \/ SendCaught
    \/ \E now \in Timestamps : SendMerge(now)
    \/ Shutdown

Spec == Init /\ [][Next]_vars

\* the life cycle of the polling loop against a remote source without
\* messages: repeated initialize and shutdown, failing and succeeding fetches
NextLifecycle ==
    \/ Initialize(MaxInits)
    \/ InitializeSeeded(EmptySnapshot)
    \/ InitializeFailed
    \/ \E i \in 1..Len(loops) : LoopResume(i)
    \/ \E i \in 1..Len(loops) : LoopFetchOk(i, EmptySnapshot)
    \/ \E i \in 1..Len(loops) : LoopFetchFail(i)
    \/ Shutdown

SpecLifecycle == Init /\ [][NextLifecycle]_vars

\* the same, on an event loop that resumes every task whose sleep is over
\* and with fetches that end, by an answer or by the request timeout
LifecycleFairness ==
    \A i \in 1..MaxInits :
        /\ WF_vars(i \in 1..Len(loops) /\ LoopResume(i))
        /\ WF_vars(i \in 1..Len(loops)
                      /\ (LoopFetchOk(i, EmptySnapshot) \/ LoopFetchFail(i)))

SpecLifecycleFair == Init /\ [][NextLifecycle]_vars /\ LifecycleFairness

\* the state store driven by arbitrary update_state calls
NextStore ==
    \/ \E new \in AppStates : StoreUpdate(new)
    \/ \E o \in Observers : AddObserver(o)
    \/ \E o \in Observers : RemoveObserver(o)

SpecStore == Init /\ [][NextStore]_vars

\* the event bus driven by arbitrary subscribe, unsubscribe and publish calls
NextBus ==
    \/ \E t \in BusTypes, cb \in Callbacks : Subscribe(t, cb)
    \/ \E t \in BusTypes, cb \in Callbacks : Unsubscribe(t, cb)
    \/ \E t \in BusTypes : Publish(t)

SpecBus == Init /\ [][NextBus]_vars

\* callbacks that return: two plain functions and the coroutine function
RegCallbacks == Callbacks \ Raising

\* the event bus with subscribers that do not raise
NextRegs ==
    \/ \E t \in BusTypes, cb \in RegCallbacks : Subscribe(t, cb)
    \/ \E t \in BusTypes, cb \in RegCallbacks : Unsubscribe(t, cb)
    \/ \E t \in BusTypes : Publish(t)

SpecRegs == Init /\ [][NextRegs]_vars

\* the event bus called from one thread, with handlers that call it again
NextReentrant ==
    \/ \E t \in ReTypes, cb \in ReCallbacks : LockSubscribe(t, cb)
    \/ \E t \in ReTypes, cb \in ReCallbacks : LockUnsubscribe(t, cb)
    \/ \E t \in ReTypes : PublishEnter(t)
    \/ PublishCopied
    \/ HandlerCall
    \/ HandlerReturn
    \/ PublishReturn

SpecReentrant == Init /\ [][NextReentrant]_vars

\* the state store called concurrently by the threads in Workers
NextThreads ==
    \/ \E w \in Workers, new \in StoreInputs : UpdateAcquire(w, new)
    \/ \E w \in Workers : UpdateRead(w)
    \/ \E w \in Workers : UpdateWrite(w)
    \/ \E w \in Workers : UpdateRelease(w)
    \/ \E w \in Workers : UpdateNotify(w)
    \/ \E w \in Workers : GetState(w)

SpecThreads == Init /\ [][NextThreads]_vars

\* the state store called by threads that use update_state, get_state and
\* update_partial_state
NextPartial ==
    \/ \E w \in Workers, new \in StoreInputs : UpdateAcquire(w, new)
    \/ \E w \in Workers : UpdateRead(w)
    \/ \E w \in Workers : UpdateWrite(w)
    \/ \E w \in Workers : UpdateRelease(w)
    \/ \E w \in Workers : UpdateNotify(w)
    \/ \E w \in Workers : GetState(w)
    \/ \E w \in Workers, kwargs \in PartialFields : PartialAcquire(w, kwargs)
    \/ \E w \in Workers : PartialCall(w)

SpecPartial == Init /\ [][NextPartial]_vars

\* the read-modify-write helpers called concurrently by the threads
NextHelpers ==
    \/ \E w \in Workers, c \in HelperCalls : HelperRead(w, c[1], c[2])
    \/ \E w \in Workers : HelperWrite(w)

SpecHelpers == Init /\ [][NextHelpers]_vars

\* a caller of the store that records an error text in the state
ReportError == StoreUpdate([state EXCEPT !.error_message = "timeout"])

\* the single-field updates of the application, on a store whose state can
\* carry an error text
NextFrame ==
    \/ ReportError
    \/ \E g \in {"thread_5551_0"} : \E now \in Timestamps : UpdateThread(g, now)
    \/ \E g \in {"thread_5551_0"} : SelectThread(g)
    \/ Shutdown

SpecFrame == Init /\ [][NextFrame]_vars

\* snapshots whose records are all well-formed and carry an id
IdSnapshots ==
    {snap \in Snapshots :
        \A g \in Guids : \A k \in 1..Len(snap[g]) :
            snap[g][k].dict /\ snap[g][k].guid # ""}

\* the polling loop against a remote source whose answers can make a cycle
\* raise after part of the snapshot was processed
NextAbort ==
    \/ Initialize(1)
    \/ InitializeSeeded(EmptySnapshot)
    \/ \E i \in 1..Len(loops) : LoopResume(i)
    \/ \E i \in 1..Len(loops) : \E snap \in IdSnapshots : LoopFetchOk(i, snap)
    \/ \E i \in 1..Len(loops) : \E snap \in IdSnapshots : LoopFetchAborted(i, snap)

SpecAbort == Init /\ [][NextAbort]_vars

\* states a top-level update_state is called with: one field replaced
ChainInputs ==
    {[state EXCEPT !.connection_state = c] : c \in ConnectionStates}
        \cup {[state EXCEPT !.current_thread_guid = g] : g \in {None, "thread_5551_0"}}

\* top-level calls, one after the other, each followed by the subscriber
\* calls it sets off
NextChain ==
    \/ chain.pending = <<>> /\ \E name \in ThreadNames : CreateThread("5551", name, 1)
    \/ chain.pending = <<>> /\ SelectThread("thread_5551_0")
    \/ \E new \in ChainInputs : ChainUpdate(new)
    \/ \E e \in ChainEvents : ChainPublish(e)
    \/ \E k \in 1..Len(chain.pending) : ChainHandle(k)

SpecChain == Init /\ [][NextChain]_vars

\* the same, with subscribers that are run: inline ones by the publish, the
\* coroutines by the pool threads
ChainFairness == WF_vars(\E k \in 1..Len(chain.pending) : ChainHandle(k))

SpecChainFair == Init /\ [][NextChain]_vars /\ ChainFairness

\* the thread registry driven by create_thread and update_thread calls
NextCreate ==
    \/ \E phone \in Phones, name \in ThreadNames, now \in CreateTimes :
          CreateThread(phone, name, now)
    \/ \E g \in {thread_guid(phone, now) : phone \in Phones, now \in CreateTimes} :
          \E now \in Timestamps : UpdateThread(g, now)

SpecCreate == Init /\ [][NextCreate]_vars

\* guids that create_thread can give
CreatedGuids == {thread_guid(phone, now) : phone \in Phones, now \in CreateTimes}

\* the thread registry with threads created, selected and deleted
NextDelete ==
    \/ \E phone \in Phones, name \in ThreadNames, now \in CreateTimes :
          CreateThread(phone, name, now)
    \/ \E g \in CreatedGuids : SelectThread(g)
    \/ \E g \in CreatedGuids : DeleteThread(g)
    \/ \E g \in CreatedGuids : HandleThreadDeleted(g)

SpecDelete == Init /\ [][NextDelete]_vars

\* the event bus with coroutine subscribers and its executor; the worker
\* threads of the pool run whenever they can
NextPool ==
    \/ \E cb \in Coroutines : Subscribe("MESSAGE_RECEIVED", cb)
    \/ PublishAsync("MESSAGE_RECEIVED")
    \/ \E hangs \in BOOLEAN : PoolStart(hangs)
    \/ PoolFinish

PoolFairness ==
    /\ WF_vars(\E hangs \in BOOLEAN : PoolStart(hangs))
    /\ WF_vars(PoolFinish)

SpecPool == Init /\ [][NextPool]_vars /\ PoolFairness

\* shutdown called by the threads in Workers after initialize has returned,
\* while the polling loop goes on
NextStop ==
    \/ Initialize(1)
    \/ InitializeSeeded(EmptySnapshot)
    \/ InitializeFailed
    \/ \E i \in 1..Len(loops) : LoopResume(i)
    \/ \E i \in 1..Len(loops) : LoopFetchOk(i, EmptySnapshot)
    \/ \E i \in 1..Len(loops) : LoopFetchFail(i)
    \/ \E w \in Workers : StopFlag(w)
    \/ \E w \in Workers : StopRead(w)
    \/ \E w \in Workers : StopWrite(w)
    \/ \E w \in Workers : StopReturn(w)

SpecStop == Init /\ [][NextStop]_vars

\* update_state with its observer loop, and add_observer and
\* remove_observer called at any moment
NextNotify ==
    \/ \E new \in StoreInputs : NotifyBegin(new)
    \/ NotifyCall
    \/ NotifyEnd
    \/ \E o \in NotifyObservers : AddObserver(o)
    \/ \E o \in NotifyObservers : RemoveObserver(o)

SpecNotify == Init /\ [][NextNotify]_vars

(***************************************************************************)
(* Properties                                                              *)
(***************************************************************************)
Registry == dicts[tmRef]

Sorted(msgs) ==
    \A i \in 1..Len(msgs) : \A j \in 1..Len(msgs) :
        i < j => msgs[i].timestamp <= msgs[j].timestamp

\* a step in which a polling loop task issues a fetch
FetchStarts ==
    \E i \in 1..Len(loops) : loops[i].pc # "fetch" /\ loops'[i].pc = "fetch"

\* a step in which the cycle of task i ends and its sleep begins
CycleEnds(i) == loops[i].pc = "fetch" /\ loops'[i].pc = "sleep"

EventTypesOf(evs) == [k \in 1..Len(evs) |-> evs[k].type]

\* C1: after any sequence of seed fetch, poll cycles and sends, no thread of
\* the registry holds two messages with the same identity.
C1_NoDuplicateIdentity ==
    \A g \in DOMAIN Registry :
        \A i \in 1..Len(Registry[g].messages) : \A j \in 1..Len(Registry[g].messages) :
            i # j => ~SameIdentity(Registry[g].messages[i], Registry[g].messages[j])

\* C2: after every update_thread call (a step that changes the content of
\* the registry in place), every thread's messages are non-decreasing by
\* timestamp.
C2_OrderedAfterUpdateThread ==
    [][(tmRef' = tmRef /\ dicts'[tmRef] # dicts[tmRef])
        => \A g \in DOMAIN dicts'[tmRef] : Sorted(dicts'[tmRef][g].messages)]_vars

\* C3: at most one fetch of a polling loop is in flight and at most one
\* polling loop task is alive, at any time.
C3_AtMostOnePoll ==
    /\ Cardinality({i \in 1..Len(loops) : loops[i].pc = "fetch"}) <= 1
    /\ Cardinality({i \in 1..Len(loops) : loops[i].pc # "done"}) <= 1

\* C4: whenever MESSAGE_RECEIVED is published for message m of thread g, the
\* registry's thread g already contains m at that moment.
C4_MergedBeforePublished ==
    \A k \in 1..Len(received) : received[k].present

\* C5: in every poll cycle, each message of the fetched snapshot that is not
\* in the registry's thread before the cycle gets exactly one
\* MESSAGE_RECEIVED event, and each message already there gets none.
C5_OneEventPerNewMessage ==
    \A g \in Guids :
        LET msgs == process_all(pollSnap[g])
            fired(m) == Cardinality({k \in 1..Len(received) :
                            /\ received[k].thread_guid = g
                            /\ SameIdentity(received[k].message, m)})
        IN  \A i \in 1..Len(msgs) :
                fired(msgs[i]) = IF Contains(MessagesOf(pollPre, g), msgs[i]) THEN 0 ELSE 1

IsSync(cb) == cb \notin Coroutines

\* C6: every publish calls each synchronous callback of the subscriber list
\* exactly once, in order, also the ones registered after a callback that
\* raises, and no exception leaves publish.
C6_BusIsolation ==
    [][\A t \in BusTypes :
        Publish(t) => /\ invoked' = SelectSeq(subscribers[t], IsSync)
                      /\ ~escaped']_vars

\* C6 witness: a publish whose list has a raising callback before a plain one
\* has called both and returned normally.
C6_Witness ==
    /\ published # None
    /\ ~escaped
    /\ \E i \in 1..Len(invoked) : \E j \in 1..Len(invoked) :
          i < j /\ invoked[i] \in Raising /\ invoked[j] \notin Raising

\* C7: update_state from connecting to a state that differs only in
\* connection_state = connected publishes CONNECTION_CHANGED, then exactly
\* one STATE_CHANGED, and no THREAD_SELECTED, until the call returns.
C7_StateDiffEvents ==
    [][\A new \in AppStates :
        (/\ state.connection_state = "connecting"
         /\ new = [state EXCEPT !.connection_state = "connected"]
         /\ StoreUpdate(new))
        => EventTypesOf(events') = <<"CONNECTION_CHANGED", "STATE_CHANGED">>]_vars

\* C8: the sleep after a cycle that failed is 2 x poll_interval and the sleep
\* after a cycle that succeeded is poll_interval, whatever came before.
C8_Backoff ==
    \A i \in 1..Len(loops) :
        loops[i].pc = "sleep" =>
            loops[i].sleep = IF loops[i].failed THEN 2 * poll_interval ELSE poll_interval

\* C8 witness: a task sleeping after its second consecutive failed cycle.
C8_Witness ==
    \E i \in 1..Len(loops) :
        loops[i].pc = "sleep" /\ loops[i].failed /\ loops[i].fails >= 2

\* C9: once a send has succeeded, no poll cycle issues its fetch before the
\* outgoing message is merged, and the merge appends exactly that one
\* outgoing message, with the sent text, to the thread the send was for.
C9_SendMergedBeforeNextFetch ==
    [][/\ sendPc = "sent" => ~FetchStarts
       /\ (sendPc = "sent" /\ sendPc' = "idle") =>
            \E now \in Timestamps :
                MessagesOf(dicts'[tmRef'], sendReq.thread)
                    = Append(MessagesOf(dicts[tmRef], sendReq.thread),
                             Message(sendReq.text, "Me", now, "outgoing", ""))]_vars

\* C10: connection_state is error right after a cycle whose fetch raised,
\* and connected right after a successful cycle that follows a failed one.
C10_ConnectionStateFollowsFetch ==
    [][\A i \in 1..Len(loops) :
        CycleEnds(i) =>
            IF loops'[i].failed
            THEN state'.connection_state = "error"
            ELSE loops[i].failed => state'.connection_state = "connected"]_vars

\* C11: publish does not hold the bus lock while a handler runs, so no call
\* of subscribe, unsubscribe or publish made by a handler blocks, and each
\* subscriber list holds exactly the registrations added and not yet removed.
C11_ReentrantBus ==
    /\ ~blocked
    /\ (frames # <<>> /\ Top.pc = "handler" => busLock = "free")
    /\ \A t \in BusTypes : \A cb \in ReCallbacks :
          Count(subscribers[t], cb) = ledger[t][cb]

\* C11 witness: a handler called by publish(E) has published E's type again,
\* and the subscriber list of that type was changed while the outer publish
\* was iterating its copy.
C11_Witness ==
    /\ Len(frames) = 2
    /\ frames[1].type = frames[2].type
    /\ frames[1].pc = "handler"
    /\ frames[2].pc = "handler"
    /\ frames[1].snapshot # subscribers[frames[1].type]
    /\ ~blocked

\* C12: the swap and the diff of one update_state are atomic with respect to
\* every other update_state (the old state of the k-th committed update is
\* the new state of the one before it, or the initial state), and get_state
\* returns the initial state or a state that was passed to update_state.
C12_SerializedUpdates ==
    /\ \A k \in 1..Len(commits) :
          commits[k].old = IF k = 1 THEN InitialState ELSE commits[k - 1].new
    /\ \A w \in Workers :
          \/ callers[w].got = InitialState
          \/ \E k \in 1..Len(commits) : callers[w].got = commits[k].new

\* C12 witness: two threads have committed different states one after the
\* other, the second entered while the first was still notifying, and a
\* get_state has returned a committed state.
C12_Witness ==
    /\ Len(commits) >= 2
    /\ commits[1].by # commits[2].by
    /\ commits[1].new # commits[2].new
    /\ callers[commits[1].by].pc = "notify"
    /\ \E w \in Workers : callers[w].got # InitialState

Rank(kind) ==
    CASE kind = "observer" -> 0
      [] kind = "CONNECTION_CHANGED" -> 1
      [] kind = "THREAD_SELECTED" -> 2
      [] kind = "STATE_CHANGED" -> 3

\* the entries of the trace that update_state calls of nesting depth d made
OwnSteps(d) ==
    LET own(e) == e.depth = d
    IN  SelectSeq(trace, own)

\* C13: in each update_state call all observers are called before any bus
\* event of that call is published, and the call's own events come in the
\* order CONNECTION_CHANGED, THREAD_SELECTED, STATE_CHANGED.
C13_NotificationOrder ==
    \A d \in 0..1 :
        LET own == OwnSteps(d)
        IN  \A i \in 1..Len(own) : \A j \in 1..Len(own) :
                i < j => /\ Rank(own[i].kind) <= Rank(own[j].kind)
                         /\ (Rank(own[j].kind) > 0 => Rank(own[i].kind) < Rank(own[j].kind))

\* C13 witness: an update_state call with two observers registered has
\* published all three events, and a subscriber's own update ran in between.
C13_Witness ==
    /\ Len(observers) = 2
    /\ Len(OwnSteps(0)) = 5
    /\ Len(OwnSteps(1)) > 0

\* shutdown has returned after a polling loop was started: only shutdown
\* clears the flag, and only _start_polling sets it
ShutdownReturned == loops # <<>> /\ ~polling_active

\* C14: once shutdown has returned, no cycle of a polling loop changes the
\* thread registry any more, wherever the loop was when shutdown was called.
C14_NoMergeAfterShutdown ==
    [][\A i \in 1..Len(loops) :
        ShutdownReturned /\ CycleEnds(i) => dicts'[tmRef'] = dicts[tmRef]]_vars

\* C15: when the seed fetch of initialize fails, the controller still starts
\* the polling loop, an ERROR_OCCURRED event with context "initialization"
\* is published, and the connection state is "error" when initialize returns.
C15_SeedFailureStillRuns ==
    [][InitializeFailed =>
        /\ polling_active'
        /\ Len(loops') = Len(loops) + 1
        /\ \E k \in 1..Len(events') :
              events'[k] = Event("ERROR_OCCURRED", "initialization")
        /\ state'.connection_state = "error"]_vars

\* C16: when the send fails, its caller gets the value False and not an
\* exception, an ERROR_OCCURRED event is published, and the thread registry
\* is the same before and after the failed send.
C16_SendFailureIsAValue ==
    [][SendFail =>
        /\ sendPc' = "returned_false"
        /\ \E k \in 1..Len(events') : events'[k].type = "ERROR_OCCURRED"
        /\ dicts'[tmRef'] = dicts[tmRef]]_vars

\* the well-formed records of a list, as the messages they stand for
WellFormed(raws) ==
    LET ok(raw) == raw.dict
    IN  SelectSeq(raws, ok)

\* C17: a record that fails to parse is skipped alone. After a poll cycle
\* every well-formed record of the snapshot that carries an id is in the
\* registry, and after a seed fetch every well-formed record of the snapshot
\* is in the registry, whatever malformed records the snapshot also holds.
C17_OnlyBadRecordSkipped ==
    [][\A snap \in Snapshots :
        /\ (\E i \in 1..Len(loops) : LoopFetchOk(i, snap)) =>
              \A g \in Guids : \A k \in 1..Len(WellFormed(snap[g])) :
                  LET raw == WellFormed(snap[g])[k]
                  IN  raw.guid # "" =>
                        Contains(MessagesOf(dicts'[tmRef'], g), Head(process_message(raw)))
        /\ (InitializeSeeded(snap) \/ InitializeSeedAborted(snap)) =>
              \A g \in Guids : \A k \in 1..Len(WellFormed(snap[g])) :
                  Contains(MessagesOf(dicts'[tmRef'], g),
                           seed_message(WellFormed(snap[g])[k]))]_vars

\* C18: a failed fetch never ends the polling loop. A task ends only when
\* it finds polling switched off, and a task that sleeps after a failed
\* cycle goes on to its next fetch unless polling was switched off meanwhile.
C18_FailureNeverFatal ==
    /\ [][\A i \in 1..Len(loops) :
            loops[i].pc # "done" /\ loops'[i].pc = "done" => ~polling_active]_vars
    /\ \A i \in 1..MaxInits :
          (i <= Len(loops) /\ loops[i].pc = "sleep" /\ loops[i].failed)
              ~> (i <= Len(loops)
                    /\ (loops[i].pc = "fetch" \/ (loops[i].pc = "done" /\ ~polling_active)))

\* C18 witness: with polling active, a task has issued another fetch after
\* two consecutive failed cycles.
C18_Witness ==
    \E i \in 1..Len(loops) :
        polling_active /\ loops[i].pc = "fetch" /\ loops[i].failed /\ loops[i].fails >= 2

\* C19: executions that never return cannot keep other executions from
\* running: whatever the number of hung executions, every execution that
\* publish has put into the queue of the executor is eventually taken by a
\* worker thread.
C19_HungHandlerIsolated ==
    (poolQueued > 0) ~> (poolQueued = 0)

\* C20: create_thread is idempotent. When a thread with the derived guid
\* exists already, the registry holds the same threads after the call, and
\* that thread keeps its name and its messages.
C20_CreateIdempotent ==
    [][\A phone \in Phones, name \in ThreadNames, now \in CreateTimes :
        (CreateThread(phone, name, now) /\ thread_guid(phone, now) \in DOMAIN Registry)
            => dicts'[tmRef'] = dicts[tmRef]]_vars

\* C21: update_thread drops every incoming message whose identity is in the
\* thread already. A call whose message is in the thread leaves the message
\* list as it was, and applying the same call a second time gives the same
\* list as applying it once.
C21_UpdateThreadDropsKnown ==
    [][\A g \in DOMAIN Registry : \A now \in Timestamps :
        UpdateThread(g, now) =>
            LET message == Message("reply", "Me", now, "outgoing", "")
                once == dicts'[tmRef']
                twice == update_thread(once, g, <<message>>)
            IN  /\ Contains(Registry[g].messages, message) =>
                      once[g].messages = Registry[g].messages
                /\ twice[g].messages = once[g].messages]_vars

\* number of messages of a list that have the identity of m
IdentityCount(msgs, m) ==
    Cardinality({i \in 1..Len(msgs) : SameIdentity(msgs[i], m)})

\* C22: a record that arrives without an id is merged into its thread on
\* first delivery and is not added again on redelivery. After a poll cycle
\* every well-formed record of the snapshot that has no id is in the
\* registry's thread, and one that was there before the cycle is there as
\* often as before.
C22_RecordWithoutIdMerged ==
    [][\A snap \in Snapshots :
        (\E i \in 1..Len(loops) : LoopFetchOk(i, snap)) =>
            \A g \in Guids : \A k \in 1..Len(WellFormed(snap[g])) :
                LET raw == WellFormed(snap[g])[k]
                    m == Head(process_message(raw))
                    pre == MessagesOf(Registry, g)
                    post == MessagesOf(dicts'[tmRef'], g)
                IN  raw.guid = "" =>
                      /\ Contains(post, m)
                      /\ Contains(pre, m) => IdentityCount(post, m) = IdentityCount(pre, m)]_vars

\* C23: shutdown is idempotent, from any thread. Whenever a second or later
\* shutdown call has returned and no call is in progress, polling is
\* inactive, is_polling is false, the connection state is disconnected and
\* the AppState is the one the first call left; no step of shutdown changes
\* a polling loop task, and no task issues a fetch after a call has begun.
C23_ShutdownIdempotent ==
    /\ [](Quiet /\ Len(stopCalls) >= 2 =>
            /\ ~polling_active
            /\ ~state.is_polling
            /\ state.connection_state = "disconnected"
            /\ stopState = <<state>>)
    /\ [][\A w \in Workers :
            (StopFlag(w) \/ StopRead(w) \/ StopWrite(w) \/ StopReturn(w)) => loops' = loops]_vars
    /\ [][stopCalls # <<>> => ~FetchStarts]_vars

\* C23 witness: two threads have called shutdown, both calls have returned,
\* and a polling loop task that was started is still asleep.
C23_Witness ==
    /\ Quiet
    /\ Len(stopCalls) = 2
    /\ stopCalls[1] # stopCalls[2]
    /\ stopState # <<>>
    /\ \E i \in 1..Len(loops) : loops[i].pc = "sleep"

\* C24: for one event type, publish calls the synchronous handlers in the
\* order in which they were subscribed, whatever subscribe and unsubscribe
\* calls came before: subscribe puts the new registration after all the
\* others, unsubscribe keeps the order of those that stay, and publish calls
\* the synchronous ones in the order of the list.
C24_RegistrationOrder ==
    [][\A t \in BusTypes :
        /\ \A cb \in Callbacks :
              Subscribe(t, cb) => subscribers'[t] = subscribers[t] \o <<cb>>
        /\ \A cb \in Callbacks :
              Unsubscribe(t, cb) =>
                  \/ subscribers'[t] = subscribers[t]
                  \/ \E k \in 1..Len(subscribers[t]) :
                        subscribers'[t] = Without(subscribers[t], k)
        /\ Publish(t) =>
              \E pos \in [1..Len(invoked') -> 1..Len(subscribers[t])] :
                  /\ \A k \in 1..Len(invoked') : subscribers[t][pos[k]] = invoked'[k]
                  /\ \A j \in 1..Len(invoked') : \A k \in 1..Len(invoked') :
                        j < k => pos[j] < pos[k]
                  /\ \A i \in 1..Len(subscribers[t]) :
                        IsSync(subscribers[t][i]) => \E k \in 1..Len(invoked') : pos[k] = i]_vars

\* C24 witness: a publish has called h2 before h1, both registered for the
\* type together with a coroutine, h2 having been subscribed first.
C24_Witness ==
    /\ published # None
    /\ invoked = <<"h2", "h1">>
    /\ submitted = <<"coro">>
    /\ Len(subscribers[published]) = 3

\* C25: unsubscribe(type, h) removes exactly one registration of h for that
\* type and leaves every other registration as it was: the lists of the
\* other types, the other handlers of the type with their order, and the
\* further registrations of h. When h is not registered for the type the
\* list stays as it is. No exception leaves the call.
C25_UnsubscribeOne ==
    [][\A t \in BusTypes : \A cb \in Callbacks :
        Unsubscribe(t, cb) =>
            /\ \A u \in BusTypes \ {t} : subscribers'[u] = subscribers[u]
            /\ Others(subscribers'[t], cb) = Others(subscribers[t], cb)
            /\ Count(subscribers'[t], cb)
                  = IF Count(subscribers[t], cb) > 0
                    THEN Count(subscribers[t], cb) - 1 ELSE 0
            /\ Count(subscribers[t], cb) = 0 => subscribers'[t] = subscribers[t]
            /\ ~escaped']_vars

\* C25 witness: an unsubscribe has removed one of two registrations of a
\* handler from a list that also holds another handler, while the other
\* event type has subscribers of its own.
C25_Witness ==
    /\ removal = <<2>>
    /\ \E t \in BusTypes : \E cb \in Callbacks :
          /\ Count(subscribers[t], cb) = 1
          /\ Len(subscribers[t]) = 2
          /\ \E u \in BusTypes \ {t} : subscribers[u] # <<>>

\* the states whose update_state call can have left the store in state st:
\* the call, and the _handle_connection_change it may run, keep all fields
\* of the new state but error_message
UpdatesLeaving(st) ==
    {new \in AppStates :
        [new EXCEPT !.error_message = None] = [st EXCEPT !.error_message = None]}

\* number of publishes of one kind that the update_state call itself made
OwnCount(tr, kind) == Cardinality({k \in 1..Len(tr) : tr[k] = Step(kind, 0)})

\* C26: an update_state call publishes CONNECTION_CHANGED, once, if the
\* connection_state of the new state differs from the one of the state it
\* replaced, and does not publish it otherwise.
C26_ConnectionChangedIff ==
    [][\A new \in UpdatesLeaving(state') :
        StoreUpdate(new) =>
            OwnCount(trace', "CONNECTION_CHANGED")
                = IF new.connection_state # state.connection_state THEN 1 ELSE 0]_vars

\* C26 witness: an update_state call that replaced a state with another
\* connection state has published CONNECTION_CHANGED, with an observer
\* registered.
C26_Witness ==
    /\ OwnCount(trace, "CONNECTION_CHANGED") = 1
    /\ state.connection_state = "error"
    /\ Len(observers) = 1

\* C27: an update_state call publishes THREAD_SELECTED, once, if the
\* current_thread_guid of the new state differs from the one of the state it
\* replaced, a change to or from no current thread included, and does not
\* publish it otherwise.
C27_ThreadSelectedIff ==
    [][\A new \in UpdatesLeaving(state') :
        StoreUpdate(new) =>
            OwnCount(trace', "THREAD_SELECTED")
                = IF new.current_thread_guid # state.current_thread_guid THEN 1 ELSE 0]_vars

\* C27 witness: an update_state call that replaced a state with a current
\* thread by one without has published THREAD_SELECTED, with the observer o2
\* registered.
C27_Witness ==
    /\ OwnCount(trace, "THREAD_SELECTED") = 1
    /\ state.current_thread_guid = None
    /\ events # <<>>
    /\ observers = <<"o2">>

\* C28: every update_state call publishes one STATE_CHANGED event of its
\* own, also when the new state equals the old one. Its data hold as
\* old_state the state that was current just before the swap, as new_state
\* the state passed in, and as changes the four field comparisons of exactly
\* these two states.
C28_StateChangedAlways ==
    [][\A new \in UpdatesLeaving(state') :
        StoreUpdate(new) =>
            /\ OwnCount(trace', "STATE_CHANGED") = 1
            /\ update_state(state, new, dicts).payload
                 = [old_state |-> state,
                    new_state |-> new,
                    changes |->
                      [connection_changed |-> state.connection_state # new.connection_state,
                       thread_changed |-> state.current_thread_guid # new.current_thread_guid,
                       polling_changed |-> state.is_polling # new.is_polling,
                       threads_changed |-> dicts[state.threads] # dicts[new.threads]]]]_vars

\* C28 witness: an update_state call with one observer registered has
\* published STATE_CHANGED and nothing else, the new state carrying an error
\* message.
C28_Witness ==
    /\ trace = <<Step("observer", 0), Step("STATE_CHANGED", 0)>>
    /\ state.error_message = "timeout"

\* C29: for every update_state call, each observer that is registered when
\* the update is applied is called exactly once, also when another observer
\* raises, and the bus events of the update are published. In the step that
\* ends the observer loop, every observer that was registered at the swap,
\* and is registered as often at the end of the loop, has been called once
\* per registration, and STATE_CHANGED is published.
C29_EachObserverOnce ==
    [][(notifier.pc = "loop" /\ notifier'.pc = "idle") =>
          /\ \A o \in NotifyObservers :
                (Count(notifier.applied, o) > 0
                   /\ Count(observers, o) = Count(notifier.applied, o))
                    => Count(notifier'.notified, o) = Count(notifier.applied, o)
          /\ events' # <<>>
          /\ events'[Len(events')].type = "STATE_CHANGED"]_vars

\* guids that update_thread is called with
UpdateGuids == {thread_guid(phone, now) : phone \in Phones, now \in CreateTimes}

\* C30: update_thread on a guid that is not in the registry does not fail:
\* it creates the thread, and after the call the thread is in the registry
\* and in the thread map of the state store and holds the incoming messages.
C30_UnknownThreadCreated ==
    [][\A g \in UpdateGuids : \A now \in Timestamps :
        (UpdateThread(g, now) /\ g \notin DOMAIN Registry) =>
            /\ g \in DOMAIN dicts'[tmRef']
            /\ g \in DOMAIN dicts'[state'.threads]
            /\ dicts'[tmRef'][g].messages
                   = <<Message("reply", "Me", now, "outgoing", "")>>
            /\ dicts'[state'.threads][g] = dicts'[tmRef'][g]
            /\ events'[Len(events')] = Event("THREAD_UPDATED", "updated")]_vars

\* a thread that update_thread created is in the registry and in the thread
\* map of the state store, with the message of the call
C30_Witness ==
    \E g \in DOMAIN Registry :
        /\ Registry[g].name = "Unknown"
        /\ Len(Registry[g].messages) = 1
        /\ g \in DOMAIN dicts[state.threads]
        /\ events # <<>>
        /\ events[Len(events)] = Event("THREAD_UPDATED", "updated")

C32_ThreadsChangedByReference ==
    [][\A new \in UpdatesLeaving(state') : StoreUpdate(new) =>
          (update_state(state, new, dicts).payload.changes.threads_changed
              <=> state.threads # new.threads)]_vars

\* what a reader of the snapshot st finds: its fields, and the threads and
\* message lists of the dictionary its threads field refers to
SnapshotContent(st, hp) == [st EXCEPT !.threads = hp[st.threads]]

\* C33: an AppState snapshot is replaced and never mutated in place. The
\* content of the snapshot that get_state() returned before a create_thread,
\* update_thread or delete_thread call, its thread map and the threads'
\* message lists included, is the same after the call.
C33_SnapshotNeverMutated ==
    [][SnapshotContent(state, dicts') = SnapshotContent(state, dicts)]_vars

\* every task of _polling_loop has left its while loop
AllLoopsDone == \A i \in 1..Len(loops) : loops[i].pc = "done"

\* C34: after shutdown(), unless polling is started again, the polling loop
\* terminates: while _polling_active is false no task begins a fetch, so a
\* task sees the flag at the end of the sleep it is in or of the cycle in
\* flight, and from every state with the flag false the run reaches a state
\* where the flag is true again or every task has ended.
C34_LoopStopsAfterShutdown ==
    /\ [][~polling_active =>
            \A i \in 1..Len(loops) :
                loops[i].pc # "fetch" => loops'[i].pc # "fetch"]_vars
    /\ (~polling_active) ~> (polling_active \/ AllLoopsDone)

\* shutdown was called while a task was running, and the task has ended
C34_Witness ==
    /\ ~polling_active
    /\ loops # <<>>
    /\ AllLoopsDone
    /\ state.connection_state = "disconnected"
    /\ events # <<>>
    /\ events[Len(events)] = Event("STATE_CHANGED", "shutdown")

\* C35: update_partial_state always returns, it never blocks on the lock of
\* the store itself, and when it has returned the state is the state before
\* with the given fields replaced. No thread that is inside
\* update_partial_state waits for the lock while it holds the lock.
C35_PartialUpdateReturns ==
    \A w \in Workers : ~(callers[w].pc = "waiting" /\ storeLock = w)

\* the fields of AppState that the helpers copy
CopiedFields ==
    {"connection_state", "current_thread_guid", "is_polling", "threads"}

\* C36: no state change is lost when read-modify-write updates of different
\* fields run on different threads: the final state has both changes. A
\* helper writes no field other than its own: every field it only copied
\* from the state it read has, after its update_state, the value the store
\* held just before, so it never puts back a value that another thread has
\* replaced meanwhile.
C36_NoLostUpdate ==
    [][\A w \in Workers : HelperWrite(w) =>
          \A f \in CopiedFields :
              callers[w].new[f] = callers[w].got[f] => state'[f] = state[f]]_vars

\* C37: every state update aimed at one field leaves all other fields of the
\* state as they were, error_message included; update_thread leaves
\* connection_state, is_polling, current_thread_guid and error_message
\* unchanged, and _update_current_thread leaves every field but
\* current_thread_guid unchanged.
C37_OtherFieldsKept ==
    [][/\ \A g \in UpdateGuids : \A now \in Timestamps :
             UpdateThread(g, now) => state' = [state EXCEPT !.threads = tmRef]
       /\ \A g \in UpdateGuids :
             SelectThread(g) => state' = [state EXCEPT !.current_thread_guid = g]]_vars

\* C38: a message accepted as new is never lost by a failing cycle. A
\* message that a cycle recorded in the cache of the service, or announced,
\* before the cycle raised is in the registry at the end of a later
\* successful cycle that delivers it again: after every successful cycle,
\* every record of its snapshot that carries an id is in the registry.
C38_AcceptedNeverLost ==
    [][\A snap \in IdSnapshots :
        (\E i \in 1..Len(loops) : LoopFetchOk(i, snap)) =>
            \A g \in Guids : \A k \in 1..Len(snap[g]) :
                Contains(MessagesOf(dicts'[tmRef'], g),
                         process_message(snap[g][k])[1])]_vars

\* C39: every top-level publish or update_state terminates: the chain of
\* state updates and publishes that the application's subscribers set off is
\* finite from every starting state. The number of subscriber calls of one
\* top-level call stays below MaxChain, and every event that waits for its
\* subscriber leads to a state where none waits.
C39_ChainsTerminate ==
    /\ [](chain.steps < MaxChain)
    /\ (chain.pending # <<>>) ~> (chain.pending = <<>>)

\* a THREAD_DELETED for the thread that is shown has set off three subscriber
\* calls, the second delete_thread among them, and no event waits
C39_Witness ==
    /\ chain.steps = 3
    /\ chain.pending = <<>>
    /\ "thread_5551_0" \notin DOMAIN Registry
    /\ state.threads = tmRef
    /\ current_thread = None

\* position in the commit order of the update_state that thread w is in
LastCommitBy(w) ==
    LET own == {k \in 1..Len(commits) : commits[k].by = w}
    IN  CHOOSE k \in own : \A j \in own : j <= k

\* C40: observers and STATE_CHANGED subscribers get the notifications in the
\* order in which the updates were committed to the store, so that the last
\* state delivered is the state the store holds once all calls have
\* returned. When a thread publishes the events of its update, no other
\* thread has an update to another state that was committed before it and
\* is not yet published.
C40_NotifiedInCommitOrder ==
    [][\A w \in Workers : UpdateNotify(w) =>
          \A v \in Workers \ {w} :
              (callers[v].pc \in {"written", "notify"}
                 /\ callers[v].new # callers[w].new)
                  => LastCommitBy(v) > LastCommitBy(w)]_vars

====
